---- MODULE Spec2Model ----
(***************************************************************************)
(* Parser coordination and de-duplication core of the PvP statistics bot.  *)
(*                                                                         *)
(*   utils/parser_utils.py   ParserCoordinator, normalize_event_data,      *)
(*                           categorize_event                              *)
(*   cogs/log_processor.py   LogProcessorCog._process_server_logs          *)
(*                                                                         *)
(* Python values are tagged records, so that values of different Python    *)
(* types are comparable and unequal:                                       *)
(*   Str(s)   a str            [str  |-> s]                                *)
(*   None     the None object  [none |-> TRUE]                             *)
(*   PyInt(n) an int           [int  |-> n]                                *)
(*   DT(s,u)  a datetime       [sec |-> s, usec |-> u]  (second and        *)
(*            microsecond of 2024-03-15 14:30:0s.00000u)                   *)
(* An event (a dict) is a record whose domain is the set of keys present.  *)
(***************************************************************************)
EXTENDS Integers, Sequences, FiniteSets, TLC

VARIABLES
    processed_event_hashes,         \* ParserCoordinator.processed_event_hashes
    last_processed_csv_timestamps,  \* server_id -> datetime, None when no key
    last_processed_log_timestamps,  \* server_id -> datetime, None when no key
    insertion_order,                \* history: retained hashes, oldest first
    admitted_since_prune,           \* history: hashes admitted after the last prune
    ever_admitted,                  \* history: hashes admitted at any time
    last_call,                      \* history: the last coordinator call and its result
    run_pc,                         \* per scan of _process_server_logs: its position
    run_pos,                        \* per scan: index of the next log entry
    run_event,                      \* per scan: the event its handler is working on
    handler_calls,                  \* history: hash -> calls of _process_kill_event
    admissions,                     \* history: hash -> times is_duplicate_event said False
    is_processing,                  \* LogProcessorCog.is_processing
    processing_lock,                \* LogProcessorCog.processing_lock: None or its holder
    last_processed,                 \* LogProcessorCog.last_processed, None when no key
    run_last_time,                  \* per scan: its local last_time
    run_mtime,                      \* per scan: its local file_mtime
    attempted,                      \* history: per run, the servers it has attempted
    handler_failed,                 \* history: hash -> calls of the handler that failed
    kills,                          \* db.kills: hash -> documents inserted
    ev1, ev2,                       \* inputs of the pure functions under check
    out1, out2,                     \* what the function under check returned for them
    fn_phase                        \* position of the pure-function check

coordVars == <<processed_event_hashes, last_processed_csv_timestamps,
               last_processed_log_timestamps, insertion_order,
               admitted_since_prune, ever_admitted, last_call>>
cogVars == <<is_processing, processing_lock, last_processed, run_last_time,
             run_mtime, attempted, handler_failed, kills>>
runVars == <<run_pc, run_pos, run_event, handler_calls, admissions, cogVars>>
fnVars == <<ev1, ev2, out1, out2, fn_phase>>
vars == <<coordVars, runVars, fnVars>>

----------------------------------------------------------------------------
(* Bounds of the model *)

\* Stand-in for the 10000 of _prune_old_hashes (len(...) > 10000).
PruneThreshold == 4
\* Stand-in for the 1000 of _prune_old_hashes ([-1000:]); below PruneThreshold.
KeepCount == 2
\* datetimes range over seconds 0..MaxSec and microseconds 0..MaxUsec
MaxSec == 1
MaxUsec == 1
\* scheduled ticks of process_logs_task that fire
MaxTicks == 2

----------------------------------------------------------------------------
(* Python values *)

Str(s) == [str |-> s]
None == [none |-> TRUE]
PyInt(n) == [int |-> n]
DT(s, u) == [sec |-> s, usec |-> u]

IsStr(v) == "str" \in DOMAIN v
IsNone(v) == "none" \in DOMAIN v
IsInt(v) == "int" \in DOMAIN v
IsDatetime(v) == "sec" \in DOMAIN v

DateTimes == {DT(s, u) : s \in 0..MaxSec, u \in 0..MaxUsec}

Digits == <<"0", "1", "2", "3", "4", "5", "6", "7", "8", "9">>
Digit(n) == Digits[n + 1]

\* datetime.isoformat(): the fraction is printed only when microsecond # 0
isoformat(d) ==
    "2024-03-15T14:30:0" \o Digit(d.sec)
        \o (IF d.usec = 0 THEN "" ELSE ".00000" \o Digit(d.usec))

\* str(datetime): as isoformat with a blank separator
str_datetime(d) ==
    "2024-03-15 14:30:0" \o Digit(d.sec)
        \o (IF d.usec = 0 THEN "" ELSE ".00000" \o Digit(d.usec))

\* str(v) as an f-string field prints it
PyStr(v) ==
    IF IsStr(v) THEN v.str
    ELSE IF IsNone(v) THEN "None"
    ELSE IF IsInt(v) THEN ToString(v.int)
    ELSE str_datetime(v)

\* dict.get(key, default)
Get(event, key, default) == IF key \in DOMAIN event THEN event[key] ELSE default
\* dict.get(key)
GetN(event, key) == Get(event, key, None)

\* event with event[key] = value (key added when absent)
SetKey(event, key, value) ==
    [k \in DOMAIN event \cup {key} |-> IF k = key THEN value ELSE event[k]]
\* event without key
DelKey(event, key) == [k \in DOMAIN event \ {key} |-> event[k]]

----------------------------------------------------------------------------
(* ParserCoordinator.generate_event_hash *)

\* timestamp = event.get("timestamp", ""); isoformat() when it is a datetime
hash_timestamp(event) ==
    LET timestamp == Get(event, "timestamp", Str(""))
    IN IF IsDatetime(timestamp) THEN isoformat(timestamp) ELSE PyStr(timestamp)

\* hash(str(event)): determined by the whole content of the event
structural_hash(event) == ToString(event)

GameEventTypes == {Str("airdrop"), Str("helicrash"), Str("trader"), Str("convoy")}
ConnectionTypes == {Str("register"), Str("unregister"), Str("join"), Str("kick")}

generate_event_hash_mission_first(event) ==
    IF "event_type" \in DOMAIN event /\ event["event_type"] = Str("mission")
    THEN hash_timestamp(event) \o "_" \o PyStr(Get(event, "mission_name", Str("")))
            \o "_" \o PyStr(Get(event, "location", Str("")))
    ELSE hash_timestamp(event) \o "_" \o PyStr(Get(event, "killer_id", Str("")))
            \o "_" \o PyStr(Get(event, "victim_id", Str("")))
            \o "_" \o PyStr(Get(event, "weapon", Str("")))

generate_event_hash(event) ==
    IF "killer_id" \in DOMAIN event /\ "victim_id" \in DOMAIN event
    THEN hash_timestamp(event) \o "_" \o PyStr(Get(event, "killer_id", Str("")))
            \o "_" \o PyStr(Get(event, "victim_id", Str("")))
            \o "_" \o PyStr(Get(event, "weapon", Str("")))
    ELSE IF "event_type" \in DOMAIN event /\ event["event_type"] = Str("mission")
    THEN hash_timestamp(event) \o "_" \o PyStr(Get(event, "mission_name", Str("")))
            \o "_" \o PyStr(Get(event, "location", Str("")))
    ELSE IF "event_type" \in DOMAIN event /\ event["event_type"] \in GameEventTypes
    THEN hash_timestamp(event) \o "_" \o PyStr(Get(event, "event_type", Str("")))
            \o "_" \o PyStr(Get(event, "event_id", Str("")))
    ELSE IF "event_type" \in DOMAIN event /\ event["event_type"] \in ConnectionTypes
    THEN hash_timestamp(event) \o "_" \o PyStr(Get(event, "event_type", Str("")))
            \o "_" \o PyStr(Get(event, "player_id", Str("")))
    ELSE hash_timestamp(event) \o "_" \o structural_hash(event)

----------------------------------------------------------------------------
(* normalize_event_data *)

\* strftime renderings of the formats normalize_event_data tries
\* "%Y.%m.%d-%H.%M.%S"
format_dot(d) == "2024.03.15-14.30.0" \o Digit(d.sec)
\* "%Y.%m.%d-%H.%M.%S:%f"
format_dot_f(d) == "2024.03.15-14.30.0" \o Digit(d.sec) \o ":00000" \o Digit(d.usec)
\* "%Y-%m-%d %H:%M:%S"
format_dash(d) == "2024-03-15 14:30:0" \o Digit(d.sec)
\* "%Y-%m-%d %H:%M:%S.%f"
format_dash_f(d) == "2024-03-15 14:30:0" \o Digit(d.sec) \o ".00000" \o Digit(d.usec)

\* datetime.fromisoformat(s): the datetimes it returns (none: ValueError).
\* It accepts the date and the time separated by any one character, with or
\* without a six-digit fraction.
fromisoformat(s) ==
    {d \in DateTimes : s \in {isoformat(d), str_datetime(d), format_dash_f(d),
                               "2024-03-15T14:30:0" \o Digit(d.sec) \o ".00000"
                                   \o Digit(d.usec)}}

\* datetime.strptime(s, fmt) for the four formats, in the order they are tried
\* mutant: the first format matches nothing
strptime_1_never(s) == {}
strptime_1(s) == {d \in DateTimes : d.usec = 0 /\ format_dot(d) = s}
strptime_2(s) == {d \in DateTimes : format_dot_f(d) = s}
strptime_3(s) == {d \in DateTimes : d.usec = 0 /\ format_dash(d) = s}
strptime_4(s) == {d \in DateTimes : format_dash_f(d) = s}

TheOne(S) == CHOOSE x \in S : TRUE

\* lines 221-253: the timestamp of the normalized event; now is utcnow()
normalize_timestamp(event, now) ==
    IF "timestamp" \in DOMAIN event
    THEN LET timestamp == event["timestamp"]
         IN IF IsStr(timestamp)
            THEN IF fromisoformat(timestamp.str) # {}
                    THEN TheOne(fromisoformat(timestamp.str))
                 ELSE IF strptime_1(timestamp.str) # {}
                    THEN TheOne(strptime_1(timestamp.str))
                 ELSE IF strptime_2(timestamp.str) # {}
                    THEN TheOne(strptime_2(timestamp.str))
                 ELSE IF strptime_3(timestamp.str) # {}
                    THEN TheOne(strptime_3(timestamp.str))
                 ELSE IF strptime_4(timestamp.str) # {}
                    THEN TheOne(strptime_4(timestamp.str))
                 ELSE now
            ELSE timestamp
    ELSE now

\* if key in normalized and normalized[key] is None: normalized[key] = value
NoneTo(event, key, value) ==
    IF key \in DOMAIN event /\ IsNone(event[key])
    THEN SetKey(event, key, value) ELSE event

\* lines 261-271: the console fields of an event with both ids
normalize_consoles(event) ==
    IF "killer_console" \notin DOMAIN event /\ "victim_console" \notin DOMAIN event
    THEN SetKey(SetKey(event, "killer_console", Str("Unknown")),
                "victim_console", Str("Unknown"))
    ELSE IF IsNone(GetN(event, "killer_console"))
    THEN SetKey(event, "killer_console", Str("Unknown"))
    ELSE IF IsNone(GetN(event, "victim_console"))
    THEN SetKey(event, "victim_console", Str("Unknown"))
    ELSE event

\* lines 273-293: the event_type of an event with both ids
normalize_kill_type(event) ==
    IF GetN(event, "weapon") = Str("suicide_by_relocation")
          \/ GetN(event, "weapon") = Str("suicide")
    THEN IF GetN(event, "killer_id") = GetN(event, "victim_id")
         THEN SetKey(event, "event_type", Str("suicide"))
         ELSE IF GetN(event, "killer_name") = GetN(event, "victim_name")
              THEN SetKey(SetKey(event, "event_type", Str("suicide")),
                          "killer_id", GetN(event, "victim_id"))
              ELSE event
    ELSE IF GetN(event, "killer_id") = GetN(event, "victim_id")
    THEN SetKey(event, "event_type", Str("suicide"))
    ELSE SetKey(event, "event_type", Str("kill"))

\* the distance strings of the model and what float() makes of them:
\* an integer part, "inf", or "ValueError"
DistanceStrings == {"12.7", "-3.9", "7", "abc", "nan", "inf", ""}
float_trunc(s) ==
    CASE s = "12.7" -> PyInt(12)
      [] s = "-3.9" -> PyInt(-3)
      [] s = "7" -> PyInt(7)
      [] s = "inf" -> Str("OverflowError")
      [] OTHER -> Str("ValueError")

\* the exception normalize_event_data raises on event, None when it returns:
\* int(float(s)) raises OverflowError for an infinity and ValueError for a
\* NaN or a non-number; except (ValueError, TypeError) catches the latter
normalize_raises(event) ==
    IF /\ "distance" \in DOMAIN event
       /\ IsStr(event["distance"])
       /\ float_trunc(event["distance"].str) = Str("OverflowError")
    THEN Str("OverflowError") ELSE None

\* lines 306-316: the distance of an event on which nothing is raised
normalize_distance(event) ==
    LET e1 == NoneTo(event, "distance", PyInt(0))
    IN IF "distance" \in DOMAIN e1 /\ IsStr(e1["distance"])
       THEN IF IsInt(float_trunc(e1["distance"].str))
            THEN SetKey(e1, "distance", float_trunc(e1["distance"].str))
            ELSE SetKey(e1, "distance", PyInt(0))
       ELSE e1

\* lines 295-304: the null victim_id, player_id and string fields
normalize_strings(event) ==
    NoneTo(NoneTo(NoneTo(NoneTo(NoneTo(NoneTo(NoneTo(event,
        "victim_id", Str("")), "player_id", Str("")), "killer_name", Str("")),
        "victim_name", Str("")), "player_name", Str("")), "weapon", Str("")),
        "location", Str(""))

\* normalize_event_data(event), utcnow() being now, when it returns
normalize_event_data(event, now) ==
    LET e1 == SetKey(event, "timestamp", normalize_timestamp(event, now))
        e2 == NoneTo(e1, "killer_id", Str(""))
        e3 == IF "killer_id" \in DOMAIN e2 /\ "victim_id" \in DOMAIN e2
              THEN normalize_kill_type(normalize_consoles(e2))
              ELSE e2
    IN normalize_distance(normalize_strings(e3))

----------------------------------------------------------------------------
(* categorize_event *)

\* bool(v): empty strings, None and 0 are false
Truthy(v) ==
    IF IsStr(v) THEN v.str # ""
    ELSE IF IsNone(v) THEN FALSE
    ELSE IF IsInt(v) THEN v.int # 0
    ELSE TRUE

\* the weapon strings of the model
WeaponStrings == {"", "AK", "suicide", "Suicide", "suicide_by_relocation",
                  "suicide_fall", "falling", "Drowning", "relog"}

\* str.lower() on the weapon strings
lower(s) ==
    CASE s = "AK" -> "ak"
      [] s = "Suicide" -> "suicide"
      [] s = "Drowning" -> "drowning"
      [] OTHER -> s

\* any(keyword in weapon for keyword in suicide_keywords), weapon lower-cased
has_suicide_keyword(weapon) ==
    weapon \in {"suicide", "suicide_by_relocation", "suicide_fall", "falling",
                "drowning", "relog"}

\* mutant: equal identifiers alone do not make a suicide
categorize_kill_ignores_ids(event) ==
    IF /\ "killer_name" \in DOMAIN event
       /\ "victim_name" \in DOMAIN event
       /\ Truthy(event["killer_name"])
       /\ Truthy(event["victim_name"])
       /\ event["killer_name"] = event["victim_name"]
    THEN "suicide"
    ELSE IF /\ "weapon" \in DOMAIN event
            /\ ~Truthy(event["weapon"])
            /\ event["killer_id"] = event["victim_id"]
    THEN "suicide"
    ELSE IF /\ "weapon" \in DOMAIN event
            /\ has_suicide_keyword(lower(PyStr(event["weapon"])))
    THEN "suicide"
    ELSE "kill"

\* lines 356-390: an event with killer_id and victim_id, past the weapon check
categorize_kill(event) ==
    LET killer_id == event["killer_id"]
        victim_id == event["victim_id"]
    IN IF Truthy(killer_id) /\ Truthy(victim_id) /\ killer_id = victim_id
       THEN "suicide"
       ELSE IF /\ "killer_name" \in DOMAIN event
               /\ "victim_name" \in DOMAIN event
               /\ Truthy(event["killer_name"])
               /\ Truthy(event["victim_name"])
               /\ event["killer_name"] = event["victim_name"]
       THEN "suicide"
       ELSE IF /\ "weapon" \in DOMAIN event
               /\ ~Truthy(event["weapon"])
               /\ killer_id = victim_id
       THEN "suicide"
       ELSE IF /\ "weapon" \in DOMAIN event
               /\ has_suicide_keyword(lower(PyStr(event["weapon"])))
       THEN "suicide"
       ELSE "kill"

\* mutant: the connection fields are looked at before the identifiers
categorize_fields_connection_first(event) ==
    IF "weapon" \in DOMAIN event /\ ~IsStr(event["weapon"])
    THEN "AttributeError"
    ELSE IF /\ "weapon" \in DOMAIN event
            /\ lower(event["weapon"].str)
                   \in {"suicide_by_relocation", "suicide", "suicide_fall"}
    THEN "suicide"
    ELSE IF "player_id" \in DOMAIN event /\ "action" \in DOMAIN event
    THEN "connection"
    ELSE IF "killer_id" \in DOMAIN event /\ "victim_id" \in DOMAIN event
    THEN categorize_kill(event)
    ELSE "unknown"

\* lines 346-398: categorize_event past the event_type check;
\* "AttributeError" when event["weapon"] is no str (.lower() on it raises)
categorize_fields(event) ==
    IF "weapon" \in DOMAIN event /\ ~IsStr(event["weapon"])
    THEN "AttributeError"
    ELSE IF /\ "weapon" \in DOMAIN event
            /\ lower(event["weapon"].str)
                   \in {"suicide_by_relocation", "suicide", "suicide_fall"}
    THEN "suicide"
    ELSE IF "killer_id" \in DOMAIN event /\ "victim_id" \in DOMAIN event
    THEN categorize_kill(event)
    ELSE IF "player_id" \in DOMAIN event /\ "action" \in DOMAIN event
    THEN "connection"
    ELSE "unknown"

\* mutant: the tags 'kill' and 'suicide' are derived again from the fields
categorize_event_rederives(event) ==
    IF "event_type" \in DOMAIN event
    THEN LET event_type == event["event_type"]
         IN IF event_type \in ConnectionTypes THEN "connection"
            ELSE IF event_type = Str("mission") THEN "mission"
            ELSE IF event_type \in GameEventTypes THEN "game_event"
            ELSE categorize_fields(event)
    ELSE categorize_fields(event)

\* categorize_event(event)
categorize_event(event) ==
    IF "event_type" \in DOMAIN event
    THEN LET event_type == event["event_type"]
         IN IF event_type \in {Str("kill"), Str("suicide")} THEN event_type.str
            ELSE IF event_type \in ConnectionTypes THEN "connection"
            ELSE IF event_type = Str("mission") THEN "mission"
            ELSE IF event_type \in GameEventTypes THEN "game_event"
            ELSE categorize_fields(event)
    ELSE categorize_fields(event)

----------------------------------------------------------------------------
(* ParserCoordinator: the shared, process-wide instance parser_coordinator *)

Servers == {"s1", "s2"}

\* the timestamps the cursor updates are called with
CursorTimes == {DT(0, 0), DT(MaxSec, 0)}

\* a dict server_id -> datetime; .get(server_id) is None when the key is absent
CursorMaps == [Servers -> CursorTimes \cup {None}]

\* the coordinator object (self)
Self ==
    [processed_event_hashes |-> processed_event_hashes,
     last_processed_csv_timestamps |-> last_processed_csv_timestamps,
     last_processed_log_timestamps |-> last_processed_log_timestamps]

\* get_last_csv_timestamp / get_last_log_timestamp
get_last_csv_timestamp(self, server_id) == self.last_processed_csv_timestamps[server_id]
get_last_log_timestamp(self, server_id) == self.last_processed_log_timestamps[server_id]

\* mutant: the set is searched for the timestamp part of the hash
is_duplicate_event_wrong_key(self, event) ==
    hash_timestamp(event) \in self.processed_event_hashes

\* mutant: the log cursor of the event's server also rejects
is_duplicate_event_cursor_rejects(self, event) ==
    \/ generate_event_hash(event) \in self.processed_event_hashes
    \/ /\ "server_id" \in DOMAIN event
       /\ IsStr(event["server_id"])
       /\ event["server_id"].str \in Servers
       /\ ~IsNone(get_last_log_timestamp(self, event["server_id"].str))

\* the value is_duplicate_event(event) returns on the coordinator self
is_duplicate_event_returns(self, event) ==
    generate_event_hash(event) \in self.processed_event_hashes

\* mutant: the add replaces the set
add_hash_replaces(hashes, event_hash) == {event_hash}

\* self.processed_event_hashes.add(event_hash)
add_hash(hashes, event_hash) == hashes \cup {event_hash}

\* mutant: the prune keeps one entry more than intended
prune_old_hashes_keeps_more(hashes) ==
    IF Cardinality(hashes) > PruneThreshold
    THEN {kept \in SUBSET hashes : Cardinality(kept) = KeepCount + 1}
    ELSE {hashes}

\* _prune_old_hashes: the sets processed_event_hashes can hold afterwards.
\* list(a_set) lists the set in the order of its hash table, which for str keys
\* depends on the per-process hash seed and not on insertion order, so
\* [-1000:] keeps some KeepCount of the entries: any of them.
prune_old_hashes(hashes) ==
    IF Cardinality(hashes) > PruneThreshold
    THEN IF Cardinality(hashes) > KeepCount
         THEN {kept \in SUBSET hashes : Cardinality(kept) = KeepCount}
         ELSE {hashes}
    ELSE {hashes}

\* is_duplicate_event(event) on the shared coordinator: result is what it
\* returns, pruned whether _prune_old_hashes cut the set
is_duplicate_event(event, result, pruned) ==
    LET event_hash == generate_event_hash(event)
        added == add_hash(processed_event_hashes, event_hash)
    IN  /\ result = is_duplicate_event_returns(Self, event)
        /\ IF result
           THEN /\ pruned = FALSE
                /\ processed_event_hashes' = processed_event_hashes
           ELSE /\ pruned = (Cardinality(added) > PruneThreshold)
                /\ processed_event_hashes' \in prune_old_hashes(added)

\* a > b on two datetimes
datetime_gt(a, b) ==
    \/ a.sec > b.sec
    \/ a.sec = b.sec /\ a.usec > b.usec

\* mutant: the cursor only moves forward
update_csv_timestamp_keeps_max(server_id, timestamp) ==
    last_processed_csv_timestamps' =
        [last_processed_csv_timestamps EXCEPT ![server_id] =
            IF ~IsNone(@) /\ datetime_gt(@, timestamp) THEN @ ELSE timestamp]

\* mutant: the cursor of every server is set
update_csv_timestamp_every_server(server_id, timestamp) ==
    last_processed_csv_timestamps' =
        [s \in DOMAIN last_processed_csv_timestamps |-> timestamp]

\* update_csv_timestamp(server_id, timestamp)
update_csv_timestamp(server_id, timestamp) ==
    last_processed_csv_timestamps' =
        [last_processed_csv_timestamps EXCEPT ![server_id] = timestamp]

\* mutant: the log cursor only moves forward
update_log_timestamp_keeps_max(server_id, timestamp) ==
    last_processed_log_timestamps' =
        [last_processed_log_timestamps EXCEPT ![server_id] =
            IF ~IsNone(@) /\ datetime_gt(@, timestamp) THEN @ ELSE timestamp]

\* update_log_timestamp(server_id, timestamp)
update_log_timestamp(server_id, timestamp) ==
    last_processed_log_timestamps' =
        [last_processed_log_timestamps EXCEPT ![server_id] = timestamp]

\* mutant: a candidate equal to the cursor is processed again
should_process_csv_or_equal(self, server_id, csv_timestamp) ==
    LET last_timestamp == get_last_csv_timestamp(self, server_id)
    IN  IF IsNone(last_timestamp)
        THEN TRUE
        ELSE csv_timestamp = last_timestamp \/ datetime_gt(csv_timestamp, last_timestamp)

\* should_process_csv(server_id, csv_timestamp) on the coordinator self
should_process_csv(self, server_id, csv_timestamp) ==
    LET last_timestamp == get_last_csv_timestamp(self, server_id)
    IN  IF IsNone(last_timestamp)
        THEN TRUE
        ELSE datetime_gt(csv_timestamp, last_timestamp)

\* should_process_log(server_id, log_timestamp) on the coordinator self
should_process_log(self, server_id, log_timestamp) ==
    LET last_timestamp == get_last_log_timestamp(self, server_id)
    IN  IF IsNone(last_timestamp)
        THEN TRUE
        ELSE datetime_gt(log_timestamp, last_timestamp)

----------------------------------------------------------------------------
(* The coordinator called directly, one call per step *)

NumKills == PruneThreshold + 1

\* the i-th of NumKills distinct kills
KillEvent(i) ==
    [timestamp |-> DT(0, 0), killer_id |-> Str("k" \o Digit(i)),
     victim_id |-> Str("v"), weapon |-> Str("AK"),
     server_id |-> Str(IF i % 2 = 0 THEN "s1" ELSE "s2")]

CoordEvents == {KillEvent(i) : i \in 1..NumKills}

NoCall == [op |-> "none", n |-> 0]

CoordInit ==
    /\ processed_event_hashes = {}
    /\ last_processed_csv_timestamps = [s \in Servers |-> None]
    /\ last_processed_log_timestamps = [s \in Servers |-> None]
    /\ insertion_order = <<>>
    /\ admitted_since_prune = {}
    /\ ever_admitted = {}
    /\ last_call = NoCall

\* LogProcessorCog.__init__ (lines 60-62), no scan started
CogIdle ==
    /\ is_processing = FALSE
    /\ processing_lock = None
    /\ last_processed = [s \in {} |-> None]
    /\ run_last_time = [r \in {} |-> None]
    /\ run_mtime = [r \in {} |-> None]
    /\ attempted = [r \in {} |-> {}]
    /\ handler_failed = [h \in {} |-> 0]
    /\ kills = [h \in {} |-> 0]

RunIdle ==
    /\ CogIdle
    /\ run_pc = [r \in {} |-> "idle"]
    /\ run_pos = [r \in {} |-> 0]
    /\ run_event = [r \in {} |-> None]
    /\ handler_calls = [h \in {} |-> 0]
    /\ admissions = [h \in {} |-> 0]

FnIdle ==
    /\ ev1 = None
    /\ ev2 = None
    /\ out1 = None
    /\ out2 = None
    /\ fn_phase = "idle"

\* history of a call of is_duplicate_event
IsDuplicateCall(event, result, pruned) ==
    [op |-> "is_duplicate_event", event |-> event, result |-> result,
     pruned |-> pruned, n |-> 1 - last_call.n]

UpdateCall(op) == [op |-> op, n |-> 1 - last_call.n]

historyVars == <<insertion_order, admitted_since_prune, ever_admitted>>

\* a step of the last call: is_duplicate_event
IsDuplicateStep ==
    /\ last_call'.op = "is_duplicate_event"
    /\ last_call'.n # last_call.n

CallIsDuplicateEvent(event) ==
    \E result \in BOOLEAN, pruned \in BOOLEAN :
        /\ is_duplicate_event(event, result, pruned)
        /\ last_call' = IsDuplicateCall(event, result, pruned)
        /\ UNCHANGED <<last_processed_csv_timestamps, last_processed_log_timestamps>>
        /\ UNCHANGED <<historyVars, runVars, fnVars>>

CallUpdateCsvTimestamp(server_id, timestamp) ==
    /\ update_csv_timestamp(server_id, timestamp)
    /\ last_call' = UpdateCall("update_csv_timestamp")
    /\ UNCHANGED <<processed_event_hashes, last_processed_log_timestamps>>
    /\ UNCHANGED <<historyVars, runVars, fnVars>>

CallUpdateLogTimestamp(server_id, timestamp) ==
    /\ update_log_timestamp(server_id, timestamp)
    /\ last_call' = UpdateCall("update_log_timestamp")
    /\ UNCHANGED <<processed_event_hashes, last_processed_csv_timestamps>>
    /\ UNCHANGED <<historyVars, runVars, fnVars>>

InitCoord == CoordInit /\ RunIdle /\ FnIdle

NextCoord ==
    \/ \E event \in CoordEvents : CallIsDuplicateEvent(event)
    \/ \E s \in Servers, t \in CursorTimes : CallUpdateCsvTimestamp(s, t)
    \/ \E s \in Servers, t \in CursorTimes : CallUpdateLogTimestamp(s, t)

SpecCoord == InitCoord /\ [][NextCoord]_vars

----------------------------------------------------------------------------
(* The per-server cursors: update_*_timestamp and should_process_* called   *)
(* in any order, with the arguments and the cursor found kept in last_call  *)

\* history of a call of update_csv_timestamp / update_log_timestamp
CursorUpdateCall(op, server_id, timestamp, previous) ==
    [op |-> op, server_id |-> server_id, timestamp |-> timestamp,
     previous |-> previous, n |-> 1 - last_call.n]

\* history of a call of should_process_csv / should_process_log
ShouldProcessCall(op, server_id, timestamp, result) ==
    [op |-> op, server_id |-> server_id, timestamp |-> timestamp,
     result |-> result, n |-> 1 - last_call.n]

SetCsvCursor(server_id, timestamp) ==
    /\ update_csv_timestamp(server_id, timestamp)
    /\ last_call' = CursorUpdateCall("update_csv_timestamp", server_id, timestamp,
                                     get_last_csv_timestamp(Self, server_id))
    /\ UNCHANGED <<processed_event_hashes, last_processed_log_timestamps>>
    /\ UNCHANGED <<historyVars, runVars, fnVars>>

SetLogCursor(server_id, timestamp) ==
    /\ update_log_timestamp(server_id, timestamp)
    /\ last_call' = CursorUpdateCall("update_log_timestamp", server_id, timestamp,
                                     get_last_log_timestamp(Self, server_id))
    /\ UNCHANGED <<processed_event_hashes, last_processed_csv_timestamps>>
    /\ UNCHANGED <<historyVars, runVars, fnVars>>

AskShouldProcessCsv(server_id, csv_timestamp) ==
    /\ last_call' = ShouldProcessCall("should_process_csv", server_id, csv_timestamp,
                                      should_process_csv(Self, server_id, csv_timestamp))
    /\ UNCHANGED <<processed_event_hashes, last_processed_csv_timestamps,
                   last_processed_log_timestamps>>
    /\ UNCHANGED <<historyVars, runVars, fnVars>>

AskShouldProcessLog(server_id, log_timestamp) ==
    /\ last_call' = ShouldProcessCall("should_process_log", server_id, log_timestamp,
                                      should_process_log(Self, server_id, log_timestamp))
    /\ UNCHANGED <<processed_event_hashes, last_processed_csv_timestamps,
                   last_processed_log_timestamps>>
    /\ UNCHANGED <<historyVars, runVars, fnVars>>

NextCursor ==
    \/ \E s \in Servers, t \in CursorTimes : SetCsvCursor(s, t)
    \/ \E s \in Servers, t \in CursorTimes : SetLogCursor(s, t)
    \/ \E s \in Servers, t \in DateTimes : AskShouldProcessCsv(s, t)
    \/ \E s \in Servers, t \in DateTimes : AskShouldProcessLog(s, t)

SpecCursor == InitCoord /\ [][NextCursor]_vars

\* the coordinator with the cursors replaced by csv and log
WithCursors(csv, log) ==
    [Self EXCEPT !.last_processed_csv_timestamps = csv,
                 !.last_processed_log_timestamps = log]

\* the two cursor maps agree on server_id
SameCursorOf(server_id, a, b) == a[server_id] = b[server_id]

\* C11: should_process_csv(server, t) (resp. should_process_log) returns True
\* exactly when the server has no CSV (resp. log) cursor or t is strictly
\* greater than it; t equal to the cursor gives False; the cursors of other
\* servers and of the other pipeline do not change the answer.
C11_ShouldProcessIffNewer ==
    /\ last_call.op = "should_process_csv" =>
          LET cursor == last_processed_csv_timestamps[last_call.server_id]
          IN  last_call.result =
                  (IsNone(cursor) \/ datetime_gt(last_call.timestamp, cursor))
    /\ last_call.op = "should_process_log" =>
          LET cursor == last_processed_log_timestamps[last_call.server_id]
          IN  last_call.result =
                  (IsNone(cursor) \/ datetime_gt(last_call.timestamp, cursor))
    /\ \A s \in Servers, t \in DateTimes, other \in CursorMaps :
          /\ \A csv \in CursorMaps :
                SameCursorOf(s, csv, last_processed_csv_timestamps) =>
                    should_process_csv(WithCursors(csv, other), s, t)
                        = should_process_csv(Self, s, t)
          /\ \A log \in CursorMaps :
                SameCursorOf(s, log, last_processed_log_timestamps) =>
                    should_process_log(WithCursors(other, log), s, t)
                        = should_process_log(Self, s, t)

\* a candidate equal to the cursor was refused while the other server and the
\* other pipeline had cursors of their own
C11_Witness ==
    /\ last_call.op = "should_process_csv"
    /\ last_call.timestamp = last_processed_csv_timestamps[last_call.server_id]
    /\ last_call.result = FALSE
    /\ \E s \in Servers \ {last_call.server_id} :
          ~IsNone(last_processed_csv_timestamps[s])
    /\ ~IsNone(last_processed_log_timestamps[last_call.server_id])

\* the candidates strictly between two cursor values
StrictlyBetween(low, high) ==
    {t \in DateTimes : datetime_gt(t, low) /\ datetime_gt(high, t)}

\* C12: update_csv_timestamp / update_log_timestamp overwrite the server's
\* cursor whatever it was: after an update to a value below the previous cursor
\* the cursor is the new, lower value, and should_process accepts every
\* timestamp strictly between the new and the previous cursor.
C12_UpdateOverwrites ==
    /\ last_call.op = "update_csv_timestamp" =>
          /\ last_processed_csv_timestamps[last_call.server_id] = last_call.timestamp
          /\ ~IsNone(last_call.previous) =>
                \A t \in StrictlyBetween(last_call.timestamp, last_call.previous) :
                    should_process_csv(Self, last_call.server_id, t)
    /\ last_call.op = "update_log_timestamp" =>
          /\ last_processed_log_timestamps[last_call.server_id] = last_call.timestamp
          /\ ~IsNone(last_call.previous) =>
                \A t \in StrictlyBetween(last_call.timestamp, last_call.previous) :
                    should_process_log(Self, last_call.server_id, t)

\* the cursor was moved back and a timestamp lies strictly in between
C12_Witness ==
    /\ last_call.op = "update_csv_timestamp"
    /\ ~IsNone(last_call.previous)
    /\ datetime_gt(last_call.previous, last_call.timestamp)
    /\ StrictlyBetween(last_call.timestamp, last_call.previous) # {}
    /\ last_processed_csv_timestamps[last_call.server_id] = last_call.timestamp

----------------------------------------------------------------------------
(* A sequence of is_duplicate_event calls, with the history of what was      *)
(* inserted, admitted and pruned                                            *)

\* the retained hashes, oldest insertion first, once the set is kept
order_after(order, event_hash, kept) ==
    SelectSeq(Append(order, event_hash), LAMBDA h : h \in kept)

\* the last count entries of a sequence, as a set
LastOf(order, count) ==
    {order[i] : i \in {j \in 1..Len(order) : j > Len(order) - count}}

Submit(event) ==
    \E result \in BOOLEAN, pruned \in BOOLEAN :
        LET event_hash == generate_event_hash(event)
        IN  /\ is_duplicate_event(event, result, pruned)
            /\ last_call' = IsDuplicateCall(event, result, pruned)
            /\ IF result
               THEN UNCHANGED historyVars
               ELSE /\ insertion_order' =
                           order_after(insertion_order, event_hash,
                                       processed_event_hashes')
                    /\ admitted_since_prune' =
                           IF pruned THEN {}
                           ELSE admitted_since_prune \cup {event_hash}
                    /\ ever_admitted' = ever_admitted \cup {event_hash}
            /\ UNCHANGED <<last_processed_csv_timestamps,
                           last_processed_log_timestamps>>
            /\ UNCHANGED <<runVars, fnVars>>

NextDedup == \E event \in CoordEvents : Submit(event)

SpecDedup == InitCoord /\ [][NextDedup]_vars

----------------------------------------------------------------------------
(* Claims about the fingerprint set *)

\* the last call was is_duplicate_event and it admitted its event
Admitted == last_call.op = "is_duplicate_event" /\ ~last_call.result
\* the last call was is_duplicate_event and it rejected its event
Rejected == last_call.op = "is_duplicate_event" /\ last_call.result

\* C2, as claimed: over any sequence of is_duplicate_event calls, pruning
\* included, a fingerprint that was admitted once is never admitted again.
C2_AdmittedAtMostOnce ==
    [][(IsDuplicateStep /\ ~last_call'.result)
          => generate_event_hash(last_call'.event) \notin ever_admitted]_vars

\* C2, amended: a fingerprint admitted since the last prune is still retained,
\* and is_duplicate_event admits only fingerprints that are not retained; so
\* between two prunes every fingerprint is admitted at most once.
C2_AdmittedAtMostOnceBetweenPrunes ==
    [][/\ admitted_since_prune \subseteq processed_event_hashes
       /\ (IsDuplicateStep /\ ~last_call'.result)
             => /\ generate_event_hash(last_call'.event) \notin processed_event_hashes
                /\ generate_event_hash(last_call'.event) \notin admitted_since_prune]_vars

\* C2 witness: a fingerprint admitted since the last prune was submitted again
\* and rejected, after an earlier prune
C2_Witness ==
    /\ Rejected
    /\ generate_event_hash(last_call.event) \in admitted_since_prune
    /\ ever_admitted # processed_event_hashes

\* C3, as claimed: when is_duplicate_event(e) returned False and the very next
\* call is is_duplicate_event(e) again, that call returns True.
C3_FalseThenTrue ==
    [][(/\ Admitted
        /\ IsDuplicateStep
        /\ last_call'.event = last_call.event) => last_call'.result]_vars

\* C4, as claimed: right after the call that prunes, the fingerprint that call
\* inserted is retained and the retained entries are the KeepCount most
\* recently inserted ones.
C4_PruneKeepsNewest ==
    [][(IsDuplicateStep /\ last_call'.pruned)
          => LET event_hash == generate_event_hash(last_call'.event)
             IN  /\ event_hash \in processed_event_hashes'
                 /\ processed_event_hashes' =
                        LastOf(Append(insertion_order, event_hash), KeepCount)]_vars

\* C5: after every is_duplicate_event call the set has at most PruneThreshold
\* entries, and the call that inserts entry PruneThreshold + 1 leaves exactly
\* KeepCount entries.
C5_SetBounded ==
    [][IsDuplicateStep
          => /\ Cardinality(processed_event_hashes') <= PruneThreshold
             /\ (/\ ~last_call'.result
                 /\ Cardinality(processed_event_hashes) = PruneThreshold)
                   => Cardinality(processed_event_hashes') = KeepCount]_vars

\* C5 witness: the call that took the set above PruneThreshold has returned
C5_Witness ==
    /\ Admitted
    /\ last_call.pruned
    /\ Len(insertion_order) = KeepCount

\* C6: a call that returns True leaves the set and both cursor maps unchanged;
\* a call that returns False has added exactly its event's fingerprint to the
\* set (whatever the prune then keeps is taken from that) and leaves both
\* cursor maps unchanged.
C6_Frame ==
    [][IsDuplicateStep
          => LET event_hash == generate_event_hash(last_call'.event)
                 added == processed_event_hashes \cup {event_hash}
             IN  /\ last_processed_csv_timestamps' = last_processed_csv_timestamps
                 /\ last_processed_log_timestamps' = last_processed_log_timestamps
                 /\ last_call'.result
                       => processed_event_hashes' = processed_event_hashes
                 /\ ~last_call'.result
                       => /\ event_hash \notin processed_event_hashes
                          /\ IF Cardinality(added) > PruneThreshold
                             THEN processed_event_hashes' \subseteq added
                             ELSE processed_event_hashes' = added]_vars

\* C6 witness: an event was admitted into a set that already held others, with
\* cursors recorded in both maps
C6_Witness ==
    /\ Admitted
    /\ ~last_call.pruned
    /\ Cardinality(processed_event_hashes) > 1
    /\ \E s \in Servers : ~IsNone(last_processed_csv_timestamps[s])
    /\ \E s \in Servers : ~IsNone(last_processed_log_timestamps[s])

\* C10: what is_duplicate_event(e) returns is decided by the fingerprint set
\* and e: on coordinators with this fingerprint set and any cursor maps it
\* returns the same value, namely whether e's fingerprint is in the set.
C10_CursorsDoNotReject ==
    \A event \in CoordEvents : \A cursors \in CursorMaps :
        LET fingerprint_says == generate_event_hash(event) \in processed_event_hashes
        IN  /\ is_duplicate_event_returns(
                   [Self EXCEPT !.last_processed_csv_timestamps = cursors], event)
                 = fingerprint_says
            /\ is_duplicate_event_returns(
                   [Self EXCEPT !.last_processed_log_timestamps = cursors], event)
                 = fingerprint_says
            /\ is_duplicate_event_returns(
                   [Self EXCEPT !.last_processed_csv_timestamps = cursors,
                                !.last_processed_log_timestamps = cursors], event)
                 = fingerprint_says

\* C10 witness: an event was admitted although both cursors of its server are
\* at or after the event's timestamp
C10_Witness ==
    /\ Admitted
    /\ last_processed_csv_timestamps[last_call.event["server_id"].str] = DT(MaxSec, 0)
    /\ last_processed_log_timestamps[last_call.event["server_id"].str] = DT(MaxSec, 0)

----------------------------------------------------------------------------
(* generate_event_hash applied to pairs of kill events *)

\* ids and weapons with and without the "_" that separates the hashed fields
HashKillerIds == {Str("a"), Str("a_b")}
HashVictimIds == {Str("c"), Str("b_c")}
HashWeapons == {Str("AK"), Str("suicide_by_relocation")}

HashEvents ==
    {[timestamp |-> t, killer_id |-> k, victim_id |-> v, weapon |-> w] :
        t \in DateTimes, k \in HashKillerIds, v \in HashVictimIds, w \in HashWeapons}

InitHash ==
    /\ CoordInit /\ RunIdle
    /\ ev1 \in HashEvents
    /\ ev2 \in HashEvents
    /\ out1 = None
    /\ out2 = None
    /\ fn_phase = "input"

HashBoth ==
    /\ fn_phase = "input"
    /\ out1' = Str(generate_event_hash(ev1))
    /\ out2' = Str(generate_event_hash(ev2))
    /\ fn_phase' = "hashed"
    /\ UNCHANGED <<ev1, ev2, coordVars, runVars>>

NextHash == HashBoth

SpecHash == InitHash /\ [][NextHash]_vars

IdentityFields == {"timestamp", "killer_id", "victim_id", "weapon"}

\* the events agree on timestamp, killer_id, victim_id and weapon
SameIdentity(e1, e2) ==
    \A key \in IdentityFields :
        /\ (key \in DOMAIN e1) = (key \in DOMAIN e2)
        /\ key \in DOMAIN e1 => e1[key] = e2[key]

\* C7, as claimed: two kill events have the same fingerprint if and only if
\* their timestamp, killer_id, victim_id and weapon are pairwise equal.
C7_HashEqualIffSameIdentity ==
    fn_phase = "hashed" => ((out1 = out2) <=> SameIdentity(ev1, ev2))

----------------------------------------------------------------------------
(* generate_event_hash of a kill event while other fields come and go *)

\* fields that are not hashed for a kill event, and values they take
OtherFields == {"line", "server_id", "distance", "killer_console", "event_type",
                "mission_name"}
OtherValues(key) ==
    CASE key = "line" -> {PyInt(1), PyInt(2)}
      [] key = "distance" -> {PyInt(7), None}
      [] key = "event_type" -> {Str("mission"), Str("kill"), Str("join")}
      [] OTHER -> {Str("s1"), Str("XSX")}

\* kill events with and without a weapon key
FieldEvents == HashEvents \cup {DelKey(event, "weapon") : event \in HashEvents}

InitFields ==
    /\ CoordInit /\ RunIdle
    /\ ev1 \in FieldEvents
    /\ ev2 = ev1
    /\ out1 = Str(generate_event_hash(ev1))
    /\ out2 = out1
    /\ fn_phase = "fields"

AddField(key, value) ==
    /\ fn_phase = "fields"
    /\ ev2' = SetKey(ev2, key, value)
    /\ out2' = Str(generate_event_hash(ev2'))
    /\ UNCHANGED <<ev1, out1, fn_phase, coordVars, runVars>>

RemoveField(key) ==
    /\ fn_phase = "fields"
    /\ key \in DOMAIN ev2
    /\ ev2' = DelKey(ev2, key)
    /\ out2' = Str(generate_event_hash(ev2'))
    /\ UNCHANGED <<ev1, out1, fn_phase, coordVars, runVars>>

NextFields ==
    \/ \E key \in OtherFields : \E value \in OtherValues(key) : AddField(key, value)
    \/ \E key \in OtherFields : RemoveField(key)

SpecFields == InitFields /\ [][NextFields]_vars

\* C8: adding or removing a field other than timestamp, killer_id, victim_id
\* and weapon leaves the fingerprint of a kill event as it was.
C8_OtherFieldsNotHashed ==
    fn_phase = "fields" => (SameIdentity(ev1, ev2) /\ out2 = out1)

\* C8 witness: the event gained an event_type of another kind and a line
\* number, and lost nothing of its identity
C8_Witness ==
    /\ fn_phase = "fields"
    /\ "line" \in DOMAIN ev2
    /\ "event_type" \in DOMAIN ev2
    /\ ev2["event_type"] = Str("mission")
    /\ "server_id" \notin DOMAIN ev2

----------------------------------------------------------------------------
(* The same kill as a 7-field (pre-April) and as a 9-field (post-April)     *)
(* record, normalized and submitted to the coordinator                      *)

\* the instant of the i-th kill
KillTime(i) == DT(i % (MaxSec + 1), 0)

\* the ways a record carries the instant d: the datetime itself or a string
\* in one of the formats normalize_event_data parses
TimestampForms(d) ==
    {d, Str(isoformat(d)), Str(format_dot(d)), Str(format_dash(d))}

\* the values utcnow() returns in the model
NowTimes == {DT(0, 0), DT(MaxSec, MaxUsec)}

\* the i-th kill as a 7-field record: kill 2 is a suicide, kill 3 a suicide
\* recorded under two ids of one player, the others are kills
LegacyRecord(i, timestamp) ==
    [timestamp |-> timestamp,
     killer_name |-> IF i = 3 THEN Str("N3") ELSE Str("K" \o Digit(i)),
     killer_id |-> Str("k" \o Digit(i)),
     victim_name |-> IF i = 3 THEN Str("N3") ELSE Str("V" \o Digit(i)),
     victim_id |-> IF i = 2 THEN Str("k2") ELSE Str("v" \o Digit(i)),
     weapon |-> IF i = 2 THEN Str("suicide_by_relocation")
                ELSE IF i = 3 THEN Str("suicide") ELSE Str("AK"),
     distance |-> Str("12.7")]

\* the i-th kill as a 9-field record
ModernRecord(i, timestamp) ==
    [k \in DOMAIN LegacyRecord(i, timestamp) \cup {"killer_console", "victim_console"}
        |-> IF k = "killer_console" THEN Str("XSX")
            ELSE IF k = "victim_console" THEN Str("PS5")
            ELSE LegacyRecord(i, timestamp)[k]]

Generations == {"legacy", "modern"}

Record(i, generation, timestamp) ==
    IF generation = "legacy" THEN LegacyRecord(i, timestamp)
    ELSE ModernRecord(i, timestamp)

InitNorm == CoordInit /\ RunIdle /\ FnIdle

\* normalize_event_data on a record of kill i, then is_duplicate_event
SubmitRecord(i, generation, timestamp, now) ==
    \E result \in BOOLEAN, pruned \in BOOLEAN :
        LET raw == Record(i, generation, timestamp)
            event == normalize_event_data(raw, now)
        IN  /\ normalize_raises(raw) = None
            /\ is_duplicate_event(event, result, pruned)
            /\ last_call' = [op |-> "is_duplicate_event", event |-> event,
                             result |-> result, pruned |-> pruned,
                             n |-> 1 - last_call.n,
                             kill |-> i, generation |-> generation]
            /\ ev1' = raw
            /\ out1' = event
            /\ UNCHANGED <<last_processed_csv_timestamps,
                           last_processed_log_timestamps>>
            /\ UNCHANGED <<historyVars, runVars, ev2, out2, fn_phase>>

NextNorm ==
    \E i \in 1..NumKills, generation \in Generations :
        \E timestamp \in TimestampForms(KillTime(i)), now \in NowTimes :
            SubmitRecord(i, generation, timestamp, now)

SpecNorm == InitNorm /\ [][NextNorm]_vars

\* C9, as claimed: when a record of a kill was admitted and the next record
\* submitted is the same kill in the other generation's format, the two
\* normalized events agree on timestamp, killer_id, victim_id, weapon and
\* event_type, have the same fingerprint, and the second is rejected.
C9_OtherFormatRejected ==
    [][(/\ Admitted
        /\ IsDuplicateStep
        /\ last_call'.kill = last_call.kill
        /\ last_call'.generation # last_call.generation)
          => /\ SameIdentity(out1, out1')
             /\ GetN(out1, "event_type") = GetN(out1', "event_type")
             /\ generate_event_hash(out1) = generate_event_hash(out1')
             /\ last_call'.result]_vars

----------------------------------------------------------------------------
(* LogProcessorCog._process_server_logs: two scans of one server's log file *)
(* on the one event loop, the scheduled process_logs_task and a manual      *)
(* process_logs_command.  A step runs from one await to the next.           *)

Runs == {"task", "manual"}

\* the server both scans work on
RunServer == "s1"

\* the entries of the file that are newer than the scan's last_time
\* (filtered_entries, lines 422-428): NumKills kills
LogFile == [i \in 1..NumKills |-> ModernRecord(i, KillTime(i))]

\* the fingerprints of the file's entries
LogHashes ==
    {generate_event_hash(normalize_event_data(LogFile[i], DT(0, 0))) :
        i \in 1..NumKills}

InitRuns ==
    /\ CoordInit /\ FnIdle /\ CogIdle
    /\ run_pc = [r \in Runs |-> "idle"]
    /\ run_pos = [r \in Runs |-> 1]
    /\ run_event = [r \in Runs |-> None]
    /\ handler_calls = [h \in LogHashes |-> 0]
    /\ admissions = [h \in LogHashes |-> 0]

\* the scan has the file's entries (lines 384-430)
StartScan(r) ==
    /\ run_pc[r] = "idle"
    /\ run_pc' = [run_pc EXCEPT ![r] = "entries"]
    /\ run_pos' = [run_pos EXCEPT ![r] = 1]
    /\ UNCHANGED <<run_event, handler_calls, admissions, cogVars, coordVars, fnVars>>

\* lines 431-451 for the next entry, up to the await inside the handler:
\* normalize, is_duplicate_event and, for an admitted event,
\* update_log_timestamp, categorize_event and the call of _process_kill_event
ProcessEntry(r, now) ==
    /\ run_pc[r] = "entries"
    /\ run_pos[r] <= NumKills
    /\ \E result \in BOOLEAN, pruned \in BOOLEAN :
        LET normalized_event ==
                SetKey(normalize_event_data(LogFile[run_pos[r]], now),
                       "server_id", Str(RunServer))
            event_hash == generate_event_hash(normalized_event)
            event_type == categorize_event(normalized_event)
        IN  /\ is_duplicate_event(normalized_event, result, pruned)
            /\ last_call' = [op |-> "is_duplicate_event", event |-> normalized_event,
                             result |-> result, pruned |-> pruned,
                             n |-> 1 - last_call.n, run |-> r]
            /\ IF result
               THEN /\ run_pos' = [run_pos EXCEPT ![r] = @ + 1]
                    /\ UNCHANGED <<last_processed_log_timestamps, run_pc,
                                   run_event, handler_calls, admissions>>
               ELSE /\ IF IsDatetime(normalized_event["timestamp"])
                       THEN update_log_timestamp(RunServer,
                                                 normalized_event["timestamp"])
                       ELSE UNCHANGED last_processed_log_timestamps
                    /\ admissions' = [admissions EXCEPT ![event_hash] = @ + 1]
                    /\ IF event_type \in {"kill", "suicide"}
                       THEN /\ handler_calls' =
                                   [handler_calls EXCEPT ![event_hash] = @ + 1]
                            /\ run_event' = [run_event EXCEPT ![r] = normalized_event]
                            /\ run_pc' = [run_pc EXCEPT ![r] = "handler"]
                            /\ UNCHANGED run_pos
                       ELSE /\ run_pos' = [run_pos EXCEPT ![r] = @ + 1]
                            /\ UNCHANGED <<run_pc, run_event, handler_calls>>
    /\ UNCHANGED <<last_processed_csv_timestamps, historyVars, cogVars, fnVars>>

\* _process_kill_event returns (lines 450-451)
HandlerReturns(r) ==
    /\ run_pc[r] = "handler"
    /\ run_pc' = [run_pc EXCEPT ![r] = "entries"]
    /\ run_pos' = [run_pos EXCEPT ![r] = @ + 1]
    /\ run_event' = [run_event EXCEPT ![r] = None]
    /\ UNCHANGED <<handler_calls, admissions, cogVars, coordVars, fnVars>>

\* the scan is through the file (lines 464-472)
EndScan(r) ==
    /\ run_pc[r] = "entries"
    /\ run_pos[r] > NumKills
    /\ run_pc' = [run_pc EXCEPT ![r] = "done"]
    /\ UNCHANGED <<run_pos, run_event, handler_calls, admissions, cogVars,
                   coordVars, fnVars>>

NextRuns ==
    \/ \E r \in Runs : StartScan(r)
    \/ \E r \in Runs, now \in NowTimes : ProcessEntry(r, now)
    \/ \E r \in Runs : HandlerReturns(r)
    \/ \E r \in Runs : EndScan(r)

SpecRuns == InitRuns /\ [][NextRuns]_vars

\* C1, as claimed: when one scan was admitted with a kill and the other scan
\* submits the same kill next, the second gets True from is_duplicate_event
\* and no second call reaches _process_kill_event: of the two callers exactly
\* one is admitted.
C1_ExactlyOneAdmitted ==
    [][(/\ Admitted
        /\ IsDuplicateStep
        /\ last_call'.run # last_call.run
        /\ generate_event_hash(last_call'.event) = generate_event_hash(last_call.event))
          => LET event_hash == generate_event_hash(last_call.event)
             IN  /\ last_call'.result
                 /\ admissions'[event_hash] = admissions[event_hash]
                 /\ handler_calls'[event_hash] = handler_calls[event_hash]]_vars

----------------------------------------------------------------------------
(* normalize_event_data applied to a raw event and categorize_event applied *)
(* to what it returns, as _process_server_logs applies them to each entry   *)

\* the dict with no key
EmptyDict == [k \in {} |-> None]

\* the dicts with the one key, one for each value
Field(key, values) == {[k \in {key} |-> v] : v \in values}

\* the key absent, or present with one of the values
Optional(key, values) == {EmptyDict} \cup Field(key, values)

\* raw kill records: identifiers, weapon, names, consoles and a tag the
\* source may already carry, each absent, null or a string
RawKills ==
    {killer_id @@ victim_id @@ weapon @@ names @@ killer_console
         @@ victim_console @@ event_type @@ [timestamp |-> DT(0, 0)] :
        killer_id \in Optional("killer_id", {None, Str("a")}),
        victim_id \in Optional("victim_id", {None, Str("a"), Str("b")}),
        weapon \in Optional("weapon", {None, Str(""), Str("AK"), Str("suicide"),
                                       Str("falling")}),
        names \in {EmptyDict,
                   [killer_name |-> Str("N"), victim_name |-> Str("N")],
                   [killer_name |-> Str("N"), victim_name |-> Str("M")]},
        killer_console \in Optional("killer_console", {None, Str("XSX")}),
        victim_console \in Optional("victim_console", {None, Str("PS5")}),
        event_type \in Optional("event_type", {Str("kill"), Str("mission")})}

\* raw records of any kind: the timestamp absent, null, a number, a datetime,
\* a parseable and an unparseable string; the distance absent, null, a number
\* or a string
RawScalars ==
    {timestamp @@ distance @@ player_id @@ ids :
        timestamp \in Optional("timestamp",
                              {None, PyInt(0), DT(MaxSec, 0),
                               Str(format_dot(DT(MaxSec, 0))),
                               Str(format_dot_f(DT(MaxSec, MaxUsec))),
                               Str(format_dash(DT(MaxSec, 0))),
                               Str(format_dash_f(DT(MaxSec, MaxUsec))),
                               Str(isoformat(DT(MaxSec, MaxUsec))),
                               Str("yesterday")}),
        distance \in Optional("distance",
                             {None, PyInt(5)} \cup {Str(d) : d \in DistanceStrings}),
        player_id \in Optional("player_id", {None, Str("p")}),
        ids \in {EmptyDict, [killer_id |-> Str("a"), victim_id |-> Str("b")]}}

RawEvents == RawKills \cup RawScalars

InitPipeline ==
    /\ CoordInit /\ RunIdle
    /\ ev1 \in RawEvents
    /\ ev2 = None
    /\ out1 = None
    /\ out2 = None
    /\ fn_phase = "raw"

\* normalized = normalize_event_data(entry) (log_processor.py line 433):
\* out1 is what it returns, or the exception it raises
NormalizeEntry(now) ==
    /\ fn_phase = "raw"
    /\ IF normalize_raises(ev1) = None
       THEN /\ out1' = normalize_event_data(ev1, now)
            /\ fn_phase' = "normalized"
       ELSE /\ out1' = normalize_raises(ev1)
            /\ fn_phase' = "raised"
    /\ UNCHANGED <<ev1, ev2, out2, coordVars, runVars>>

\* event_type = categorize_event(normalized) (log_processor.py line 445)
CategorizeEntry ==
    /\ fn_phase = "normalized"
    /\ out2' = Str(categorize_event(out1))
    /\ fn_phase' = "categorized"
    /\ UNCHANGED <<ev1, ev2, out1, coordVars, runVars>>

\* categorize_event on a normalized kill whose killer_id is set to its
\* victim_id, with the event_type tag kept or removed
CategorizeSelfKill(keep_tag) ==
    /\ fn_phase = "categorized"
    /\ out2 = Str("kill")
    /\ "killer_id" \in DOMAIN out1 /\ "victim_id" \in DOMAIN out1
    /\ LET self_kill == SetKey(out1, "killer_id", out1["victim_id"])
       IN  ev2' = IF keep_tag THEN self_kill ELSE DelKey(self_kill, "event_type")
    /\ out2' = Str(categorize_event(ev2'))
    /\ fn_phase' = "self_kill"
    /\ UNCHANGED <<ev1, out1, coordVars, runVars>>

NextPipeline ==
    \/ \E now \in NowTimes : NormalizeEntry(now)
    \/ CategorizeEntry
    \/ \E keep_tag \in BOOLEAN : CategorizeSelfKill(keep_tag)

SpecPipeline == InitPipeline /\ [][NextPipeline]_vars

\* both identifiers are keys of the event
HasBothIds(event) == "killer_id" \in DOMAIN event /\ "victim_id" \in DOMAIN event

\* C13, as claimed: a normalized event with both identifiers present and
\* killer_id different from victim_id is categorized 'kill'.
C13_DistinctIdsAreKill ==
    (/\ fn_phase = "categorized"
     /\ HasBothIds(out1)
     /\ out1["killer_id"] # out1["victim_id"])
        => out2 = Str("kill")

\* C16: whenever the normalized event carries the event_type 'kill' or
\* 'suicide', categorize_event of the normalized event returns that tag.
C16_TagIsReturned ==
    (/\ fn_phase = "categorized"
     /\ GetN(out1, "event_type") \in {Str("kill"), Str("suicide")})
        => out2 = out1["event_type"]

\* a kill by the normalizer's tag whose weapon holds a suicide keyword, and a
\* suicide by the tag whose weapon names none
C16_Witness ==
    /\ fn_phase = "categorized"
    /\ \/ /\ GetN(out1, "event_type") = Str("kill")
          /\ GetN(out1, "weapon") = Str("falling")
          /\ out2 = Str("kill")
       \/ /\ GetN(out1, "event_type") = Str("suicide")
          /\ GetN(out1, "weapon") = Str("AK")
          /\ out2 = Str("suicide")

\* normalize_event_data has returned out1 for ev1
Normalized == fn_phase \in {"normalized", "categorized", "self_kill"}

\* C17, as claimed: normalize_event_data returns a record for every input
\* mapping, whatever is absent, null, a string or a number in it, and never
\* raises; the input mapping is left as it was.
C17_NormalizeIsTotal ==
    /\ fn_phase # "raised"
    /\ Normalized => DOMAIN ev1 \subseteq DOMAIN out1

\* C18, as claimed: each of killer_id, victim_id and player_id present in the
\* normalized event is not null.
C18_IdsNeverNull ==
    Normalized =>
        \A key \in {"killer_id", "victim_id", "player_id"} \cap DOMAIN out1 :
            ~IsNone(out1[key])

\* C19, as claimed: the normalized event has a timestamp and it is a point in
\* time, never a raw string and never null.
C19_TimestampIsDatetime ==
    Normalized =>
        /\ "timestamp" \in DOMAIN out1
        /\ IsDatetime(out1["timestamp"])

\* C20, as claimed: after normalizing an event that has both killer_id and
\* victim_id, killer_console and victim_console are both present and not null.
C20_ConsolesNeverNull ==
    (Normalized /\ HasBothIds(ev1)) =>
        \A key \in {"killer_console", "victim_console"} :
            /\ key \in DOMAIN out1
            /\ ~IsNone(out1[key])

\* the event_type of the four-branch cascade on an event with both ids
CascadeTag(event) ==
    LET killer_id == event["killer_id"]
        victim_id == event["victim_id"]
    IN  IF /\ GetN(event, "weapon") \in {Str("suicide_by_relocation"), Str("suicide")}
           /\ killer_id = victim_id
        THEN Str("suicide")
        ELSE IF /\ "killer_name" \in DOMAIN event /\ "victim_name" \in DOMAIN event
                /\ event["killer_name"] = event["victim_name"]
                /\ killer_id # victim_id
        THEN Str("suicide")
        ELSE IF killer_id = victim_id
        THEN Str("suicide")
        ELSE Str("kill")

\* C21, as claimed: an event with both killer_id and victim_id leaves
\* normalize_event_data with the event_type of the four-branch cascade (names
\* that match with differing ids make a suicide whatever the weapon), which is
\* always 'kill' or 'suicide'.
C21_CascadeTags ==
    (/\ Normalized
     /\ HasBothIds(ev1)
     /\ IsStr(ev1["killer_id"]) /\ IsStr(ev1["victim_id"]))
        => /\ GetN(out1, "event_type") \in {Str("kill"), Str("suicide")}
           /\ GetN(out1, "event_type") = CascadeTag(ev1)

\* the integer a null or string distance stands for
DistanceValue(distance) ==
    IF distance = Str("12.7") THEN PyInt(12)
    ELSE IF distance = Str("-3.9") THEN PyInt(-3)
    ELSE IF distance = Str("7") THEN PyInt(7)
    ELSE PyInt(0)

\* C22, as claimed: once normalize_event_data has been applied, a distance
\* that was null or a string is an integer: 0 for null, the value truncated
\* toward zero for a numeric-looking string, 0 for any other string.
C22_DistanceIsInteger ==
    (/\ fn_phase # "raw"
     /\ "distance" \in DOMAIN ev1
     /\ IsNone(ev1["distance"]) \/ IsStr(ev1["distance"]))
        => /\ Normalized
           /\ out1["distance"] = DistanceValue(ev1["distance"])

\* C23: a timestamp string in the form %Y.%m.%d-%H.%M.%S and the string in
\* the form %Y-%m-%d %H:%M:%S for the same second are parsed to the same
\* instant, that second; the forms with a fraction and the ISO form are
\* parsed to the instant they were printed from.
C23_TimestampFormsAgree ==
    Normalized =>
        \A d \in DateTimes :
            /\ (d.usec = 0 /\ GetN(ev1, "timestamp")
                                 \in {Str(format_dot(d)), Str(format_dash(d))})
                  => out1["timestamp"] = d
            /\ GetN(ev1, "timestamp") \in {Str(format_dot_f(d)), Str(format_dash_f(d)),
                                           Str(isoformat(d))}
                  => out1["timestamp"] = d

\* the dotted form was parsed to the second it names
C23_Witness ==
    /\ Normalized
    /\ GetN(ev1, "timestamp") = Str(format_dot(DT(MaxSec, 0)))
    /\ out1["timestamp"] = DT(MaxSec, 0)

\* C14, as claimed: a normalized kill event whose killer_id is set to its
\* victim_id is categorized 'suicide', whatever its weapon and whatever
\* event_type tag it carries.
C14_SelfKillIsSuicide ==
    fn_phase = "self_kill" => out2 = Str("suicide")

\* C14, amended: with the normalizer's tag 'kill' still on the event the
\* result stays 'kill'; once the tag is removed the result is 'suicide' for
\* every weapon string whenever victim_id is a non-empty string.
C14_SelfKillIsSuicideUntagged ==
    fn_phase = "self_kill" =>
        /\ "event_type" \in DOMAIN ev2 => out2 = ev2["event_type"]
        /\ ("event_type" \notin DOMAIN ev2 /\ Truthy(ev2["victim_id"]))
              => out2 = Str("suicide")

\* an untagged self-kill with a weapon that names no suicide, and names
\* that differ, was categorized 'suicide'
C14_Witness ==
    /\ fn_phase = "self_kill"
    /\ "event_type" \notin DOMAIN ev2
    /\ Truthy(ev2["victim_id"])
    /\ GetN(ev2, "weapon") = Str("AK")
    /\ GetN(ev2, "killer_name") # GetN(ev2, "victim_name")
    /\ out2 = Str("suicide")

----------------------------------------------------------------------------
(* categorize_event applied, twice, to events of every kind *)

\* events with any of the fields categorize_event reads, the weapon a string
CategorizeEvents ==
    {event_type @@ weapon @@ killer_id @@ victim_id @@ names @@ player_id @@ action :
        event_type \in Optional("event_type",
                               {Str("kill"), Str("suicide"), Str("join"),
                                Str("mission"), Str("airdrop"), Str("chat")}),
        weapon \in Optional("weapon", {Str(""), Str("AK"), Str("Suicide"),
                                       Str("falling"), Str("suicide_fall")}),
        killer_id \in Optional("killer_id", {Str(""), Str("a")}),
        victim_id \in Optional("victim_id", {Str(""), Str("a"), Str("b")}),
        names \in {EmptyDict,
                   [killer_name |-> Str("N"), victim_name |-> Str("N")],
                   [killer_name |-> Str("N"), victim_name |-> Str("M")],
                   [killer_name |-> Str(""), victim_name |-> Str("")]},
        player_id \in Optional("player_id", {Str("p")}),
        action \in Optional("action", {Str("join")})}

InitCategorize ==
    /\ CoordInit /\ RunIdle
    /\ ev1 \in CategorizeEvents
    /\ ev2 = None
    /\ out1 = None
    /\ out2 = None
    /\ fn_phase = "event"

\* categorize_event(event)
Categorize ==
    /\ fn_phase = "event"
    /\ out1' = Str(categorize_event(ev1))
    /\ fn_phase' = "once"
    /\ UNCHANGED <<ev1, ev2, out2, coordVars, runVars>>

\* categorize_event(event) a second time on the same event
CategorizeAgain ==
    /\ fn_phase = "once"
    /\ out2' = Str(categorize_event(ev1))
    /\ fn_phase' = "twice"
    /\ UNCHANGED <<ev1, ev2, out1, coordVars, runVars>>

NextCategorize == Categorize \/ CategorizeAgain

SpecCategorize == InitCategorize /\ [][NextCategorize]_vars

\* the weapon of the event, lower-cased; "" when the event has none
WeaponOf(event) == lower(Get(event, "weapon", Str("")).str)

\* equal non-empty killer_name and victim_name
EqualNames(event) ==
    /\ "killer_name" \in DOMAIN event /\ "victim_name" \in DOMAIN event
    /\ event["killer_name"] = event["victim_name"]
    /\ event["killer_name"] # Str("")

\* steps 1 to 5, 7 and 8 of the decision order, around a given step 6
DecisionOrder(event, suicide_by_ids) ==
    LET event_type == GetN(event, "event_type")
    IN  IF event_type \in {Str("kill"), Str("suicide")} THEN event_type
        ELSE IF event_type \in {Str("register"), Str("unregister"), Str("join"),
                                Str("kick")} THEN Str("connection")
        ELSE IF event_type = Str("mission") THEN Str("mission")
        ELSE IF event_type \in {Str("airdrop"), Str("helicrash"), Str("trader"),
                                Str("convoy")} THEN Str("game_event")
        ELSE IF WeaponOf(event) \in {"suicide_by_relocation", "suicide", "suicide_fall"}
            THEN Str("suicide")
        ELSE IF HasBothIds(event)
            THEN IF suicide_by_ids \/ EqualNames(event)
                       \/ has_suicide_keyword(WeaponOf(event))
                 THEN Str("suicide") ELSE Str("kill")
        ELSE IF "player_id" \in DOMAIN event /\ "action" \in DOMAIN event
            THEN Str("connection")
        ELSE Str("unknown")

----------------------------------------------------------------------------
(* utils/path_utils.py.  A str is the sequence of its characters here,      *)
(* [chars |-> <<...>>], so that split(':') and the leading '/' os.path.join *)
(* looks for can be read; the literals of the code ("Logs", "server", ...)  *)
(* are one element each.                                                    *)

Chars(c) == [chars |-> c]

\* hostname.split(':')[0]: the characters before the first ':'
split_colon_first(hostname) ==
    LET h == hostname.chars
    IN  IF \E i \in 1..Len(h) : h[i] = ":"
        THEN Chars(SubSeq(h, 1,
                 (CHOOSE i \in 1..Len(h) :
                     /\ h[i] = ":"
                     /\ \A j \in 1..(i - 1) : h[j] # ":") - 1))
        ELSE hostname

\* clean_hostname(hostname); hostname is None or a str
clean_hostname(hostname) ==
    IF hostname = None \/ hostname = Chars(<<>>)
    THEN Chars(<<"server">>)
    ELSE split_colon_first(hostname)

\* posixpath.join(a, b): b alone when it is absolute, else a and b with one
\* '/' between them unless a is empty or ends with one
os_path_join(a, b) ==
    IF b.chars # <<>> /\ b.chars[1] = "/" THEN b
    ELSE IF a.chars = <<>> \/ a.chars[Len(a.chars)] = "/" THEN Chars(a.chars \o b.chars)
    ELSE Chars(a.chars \o <<"/">> \o b.chars)

get_base_path(hostname, server_id) ==
    LET clean_host == clean_hostname(hostname)
    IN  os_path_join(Chars(<<"/">>),
                     Chars(clean_host.chars \o <<"_">> \o server_id.chars))

get_log_path(hostname, server_id) ==
    os_path_join(get_base_path(hostname, server_id), Chars(<<"Logs">>))

get_csv_path(hostname, server_id, world_dir) ==
    LET base_path == os_path_join(os_path_join(get_base_path(hostname, server_id),
                                               Chars(<<"actual1">>)),
                                  Chars(<<"deathlogs">>))
    IN  IF world_dir # None /\ world_dir # Chars(<<>>)
        THEN os_path_join(base_path, world_dir)
        ELSE base_path

\* the second definition of get_log_file_path, which replaces the first
get_log_file_path(hostname, server_id) ==
    os_path_join(get_log_path(hostname, server_id), Chars(<<"Deadside.log">>))

Hostnames ==
    {None, Chars(<<>>), Chars(<<"h">>), Chars(<<"h", ":", "2">>),
     Chars(<<"h", ":", "2", ":", "3">>), Chars(<<":", "2">>)}
ServerIds == {Chars(<<"1">>), Chars(<<"1", "2">>)}
WorldDirs == {None, Chars(<<>>), Chars(<<"w">>), Chars(<<"/", "w">>)}

PathFunctions == {"get_base_path", "get_log_path", "get_log_file_path", "get_csv_path"}

InitPaths ==
    /\ CoordInit /\ RunIdle
    /\ ev1 \in [hostname : Hostnames, server_id : ServerIds, world_dir : WorldDirs]
    /\ ev2 = None
    /\ out1 = [f \in PathFunctions |-> None]
    /\ out2 = None
    /\ fn_phase = "paths"

CallGetBasePath ==
    /\ fn_phase = "paths"
    /\ out1["get_base_path"] = None
    /\ out1' = [out1 EXCEPT !["get_base_path"] =
                    get_base_path(ev1.hostname, ev1.server_id)]
    /\ UNCHANGED <<ev1, ev2, out2, fn_phase, coordVars, runVars>>

CallGetLogPath ==
    /\ fn_phase = "paths"
    /\ out1["get_log_path"] = None
    /\ out1' = [out1 EXCEPT !["get_log_path"] =
                    get_log_path(ev1.hostname, ev1.server_id)]
    /\ UNCHANGED <<ev1, ev2, out2, fn_phase, coordVars, runVars>>

CallGetLogFilePath ==
    /\ fn_phase = "paths"
    /\ out1["get_log_file_path"] = None
    /\ out1' = [out1 EXCEPT !["get_log_file_path"] =
                    get_log_file_path(ev1.hostname, ev1.server_id)]
    /\ UNCHANGED <<ev1, ev2, out2, fn_phase, coordVars, runVars>>

CallGetCsvPath ==
    /\ fn_phase = "paths"
    /\ out1["get_csv_path"] = None
    /\ out1' = [out1 EXCEPT !["get_csv_path"] =
                    get_csv_path(ev1.hostname, ev1.server_id, ev1.world_dir)]
    /\ UNCHANGED <<ev1, ev2, out2, fn_phase, coordVars, runVars>>

NextPaths ==
    \/ CallGetBasePath
    \/ CallGetLogPath
    \/ CallGetLogFilePath
    \/ CallGetCsvPath

SpecPaths == InitPaths /\ [][NextPaths]_vars

\* '/' + cleanHost + '_' + serverId, the port stripped, 'server' for no host
ClaimedBase(hostname, server_id) ==
    <<"/">> \o (IF hostname = None \/ hostname = Chars(<<>>) THEN <<"server">>
                ELSE split_colon_first(hostname).chars)
           \o <<"_">> \o server_id.chars

\* path is a str that begins with prefix
HasPrefix(path, prefix) ==
    /\ Len(path.chars) >= Len(prefix)
    /\ SubSeq(path.chars, 1, Len(prefix)) = prefix

\* C24, as claimed: for every hostname, server id and optional world_dir the
\* base path is '/' + cleanHost + '_' + serverId, the log path base + '/Logs',
\* the log file path that + '/Deadside.log', the csv path base +
\* '/actual1/deathlogs' and, with a world_dir, + '/' + world_dir; every result
\* begins with the base path.
C24_PathsFromBase ==
    LET base == ClaimedBase(ev1.hostname, ev1.server_id)
        csv == base \o <<"/", "actual1", "/", "deathlogs">>
    IN  fn_phase = "paths" =>
          /\ out1["get_base_path"] \in {None, Chars(base)}
          /\ out1["get_log_path"] \in {None, Chars(base \o <<"/", "Logs">>)}
          /\ out1["get_log_file_path"]
                \in {None, Chars(base \o <<"/", "Logs", "/", "Deadside.log">>)}
          /\ out1["get_csv_path"]
                \in {None, IF ev1.world_dir \in {None, Chars(<<>>)}
                           THEN Chars(csv)
                           ELSE Chars(csv \o <<"/">> \o ev1.world_dir.chars)}
          /\ \A f \in PathFunctions : out1[f] # None => HasPrefix(out1[f], base)

----------------------------------------------------------------------------
(* LogProcessorCog: the scheduled ticks of process_logs_task and one manual *)
(* process_logs_command on the one event loop.  A step runs from one await  *)
(* to the next; what an awaited call returns is chosen by the step.         *)

Ticks == {"tick" \o Digit(i) : i \in 1..MaxTicks}
ManualRun == "manual"
CogRuns == Ticks \cup {ManualRun}

\* server_configs, in the order the task iterates over them
CogServers == <<"s1", "s2">>
\* the server the manual command is given
ManualServer == "s1"

\* len(log_files) of a server
NumFiles(server_id) == IF server_id = "s1" THEN 2 ELSE 1

\* the instant every entry of the log files carries
EntryTime == DT(MaxSec, 0)
\* the entries of s1's first file are later than the entry of its second
LateEntryTime == DT(MaxSec, MaxUsec)

\* parse_log_file(content) of a file: the first file of s1 begins with an
\* entry on which normalize_event_data raises
LogEntries(server_id, file) ==
    IF server_id = "s1" /\ file = 1
    THEN <<SetKey(ModernRecord(6, LateEntryTime), "distance", Str("inf")),
           ModernRecord(1, LateEntryTime)>>
    ELSE IF server_id = "s1"
    THEN <<ModernRecord(4, EntryTime)>>
    ELSE <<ModernRecord(5, EntryTime)>>

\* the entry as the scan submits it: normalized, with the server_id added
\* (lines 433-436)
Submitted(server_id, entry) ==
    SetKey(normalize_event_data(entry, DT(0, 0)), "server_id", Str(server_id))

CogServerIds == {CogServers[i] : i \in 1..Len(CogServers)}

CogHashes ==
    UNION {UNION {{generate_event_hash(Submitted(server_id,
                                                 LogEntries(server_id, f)[e])) :
                      e \in 1..Len(LogEntries(server_id, f))} :
                  f \in 1..NumFiles(server_id)} :
           server_id \in CogServerIds}

\* datetime.now() - timedelta(minutes=15) of the first scan of a server
LookbackStart == DT(0, 0)
\* datetime.now() - timedelta(minutes=minutes) of the manual command
ManualLookbacks == {DT(0, 0), DT(MaxSec, 0)}
\* the modification times a stat of a log file returns
Mtimes == {DT(0, MaxUsec), DT(MaxSec, MaxUsec)}

InitCog ==
    /\ CoordInit /\ FnIdle
    /\ is_processing = FALSE
    /\ processing_lock = None
    /\ last_processed = [s \in CogServerIds |-> None]
    /\ run_pc = [r \in CogRuns |-> "idle"]
    /\ run_pos = [r \in CogRuns |-> [server |-> 1, file |-> 1, entry |-> 1]]
    /\ run_event = [r \in CogRuns |-> None]
    /\ run_last_time = [r \in CogRuns |-> None]
    /\ run_mtime = [r \in CogRuns |-> None]
    /\ attempted = [r \in CogRuns |-> <<>>]
    /\ handler_calls = [h \in CogHashes |-> 0]
    /\ admissions = [h \in CogHashes |-> 0]
    /\ handler_failed = [h \in CogHashes |-> 0]
    /\ kills = [h \in CogHashes |-> 0]

\* the server, and the filtered entries, the scan of run r is at
ServerOf(r) == CogServers[run_pos[r].server]
\* filtered_entries (lines 422-428)
FilteredEntries(r) ==
    SelectSeq(LogEntries(ServerOf(r), run_pos[r].file),
              LAMBDA entry : /\ "timestamp" \in DOMAIN entry
                             /\ Truthy(entry["timestamp"])
                             /\ datetime_gt(entry["timestamp"], run_last_time[r]))

\* run r calls _process_server_logs for the i-th server, up to its first
\* await: last_time is read (line 213)
EnterServer(r, i, last) ==
    /\ run_pos' = [run_pos EXCEPT ![r] = [server |-> i, file |-> 1, entry |-> 1]]
    /\ run_last_time' = [run_last_time EXCEPT ![r] =
            IF last[CogServers[i]] = None THEN LookbackStart
            ELSE last[CogServers[i]]]
    /\ attempted' = [attempted EXCEPT ![r] = Append(@, CogServers[i])]
    /\ run_pc' = [run_pc EXCEPT ![r] = "connect"]

\* mutant: the finally clause leaves the flag as it is
finally_is_processing_kept(flag) == flag

\* finally: self.is_processing = False (lines 109-110)
finally_is_processing(flag) == FALSE

\* mutant: what _process_server_logs raises or returns ends the tick
LeaveServer_ends_run(r) ==
    /\ run_pc' = [run_pc EXCEPT ![r] = IF r = ManualRun THEN "reply" ELSE "done"]
    /\ is_processing' = IF r = ManualRun THEN is_processing ELSE FALSE
    /\ UNCHANGED <<run_pos, run_last_time, attempted>>

\* _process_server_logs of run r has returned or raised: the task goes to
\* the next server or through its finally (lines 99-110), the command to its
\* reply (lines 544-556)
LeaveServer(r) ==
    IF r = ManualRun
    THEN /\ run_pc' = [run_pc EXCEPT ![r] = "reply"]
         /\ UNCHANGED <<run_pos, run_last_time, attempted, is_processing>>
    ELSE IF run_pos[r].server < Len(CogServers)
    THEN /\ EnterServer(r, run_pos[r].server + 1, last_processed')
         /\ UNCHANGED is_processing
    ELSE /\ run_pc' = [run_pc EXCEPT ![r] = "done"]
         /\ is_processing' = finally_is_processing(is_processing)
         /\ UNCHANGED <<run_pos, run_last_time, attempted>>

\* the file loop of run r goes on (line 391)
NextFile(r) ==
    IF run_pos[r].file < NumFiles(ServerOf(r))
    THEN /\ run_pos' = [run_pos EXCEPT ![r].file = @ + 1, ![r].entry = 1]
         /\ run_pc' = [run_pc EXCEPT ![r] = "stat"]
         /\ UNCHANGED <<run_last_time, attempted, is_processing>>
    ELSE LeaveServer(r)

\* mutant: the file's end writes the server's log cursor to last_processed
AfterEntry_writes_cursor(r, next) ==
    IF next <= Len(FilteredEntries(r))
    THEN /\ run_pos' = [run_pos EXCEPT ![r].entry = next]
         /\ run_pc' = [run_pc EXCEPT ![r] = "entries"]
         /\ UNCHANGED <<last_processed, run_last_time, attempted, is_processing>>
    ELSE /\ last_processed' = [last_processed EXCEPT ![ServerOf(r)] =
                                  last_processed_log_timestamps[ServerOf(r)]]
         /\ NextFile(r)

\* the entry loop of run r goes on at entry number next, or is through: the
\* file is counted and last_processed set to its mtime (lines 462-467)
AfterEntry(r, next) ==
    IF next <= Len(FilteredEntries(r))
    THEN /\ run_pos' = [run_pos EXCEPT ![r].entry = next]
         /\ run_pc' = [run_pc EXCEPT ![r] = "entries"]
         /\ UNCHANGED <<last_processed, run_last_time, attempted, is_processing>>
    ELSE /\ last_processed' = [last_processed EXCEPT ![ServerOf(r)] = run_mtime[r]]
         /\ NextFile(r)

scanVars == <<run_pc, run_pos, run_last_time, attempted, is_processing>>
handlerVars == <<run_event, handler_calls, admissions, handler_failed, kills>>

\* mutant: a tick never finds a run in flight
skips_tick_never(flag) == FALSE

\* if self.is_processing: return (lines 90-92)
skips_tick(flag) == flag

\* a tick of process_logs_task fires (lines 90-98): it returns at once when a
\* run is in flight, else it sets the flag and awaits the server configs
TickFires(r) ==
    /\ r \in Ticks
    /\ run_pc[r] = "idle"
    /\ IF skips_tick(is_processing)
       THEN /\ run_pc' = [run_pc EXCEPT ![r] = "skipped"]
            /\ UNCHANGED is_processing
       ELSE /\ run_pc' = [run_pc EXCEPT ![r] = "configs"]
            /\ is_processing' = TRUE
    /\ UNCHANGED <<run_pos, run_last_time, attempted, run_mtime, last_processed,
                   processing_lock, handlerVars, coordVars, fnVars>>

\* _get_server_configs returns or raises (lines 96-110)
ConfigsReturn(r, raised) ==
    /\ r \in Ticks
    /\ run_pc[r] = "configs"
    /\ UNCHANGED last_processed
    /\ IF raised
       THEN /\ run_pc' = [run_pc EXCEPT ![r] = "done"]
            /\ is_processing' = finally_is_processing(is_processing)
            /\ UNCHANGED <<run_pos, run_last_time, attempted>>
       ELSE /\ EnterServer(r, 1, last_processed)
            /\ UNCHANGED is_processing
    /\ UNCHANGED <<run_mtime, processing_lock, handlerVars, coordVars, fnVars>>

\* process_logs_command up to the first await of _process_server_logs (lines
\* 533-539): the lookback is written to last_processed and the lock, free
\* since this is the one command, is taken
ManualStarts(lookback) ==
    /\ run_pc[ManualRun] = "idle"
    /\ processing_lock = None
    /\ last_processed' = [last_processed EXCEPT ![ManualServer] = lookback]
    /\ processing_lock' = ManualRun
    /\ EnterServer(ManualRun,
                   CHOOSE i \in 1..Len(CogServers) : CogServers[i] = ManualServer,
                   last_processed')
    /\ UNCHANGED <<is_processing, run_mtime, handlerVars, coordVars, fnVars>>

\* the command has sent its reply and leaves the async with (lines 544-565)
ManualReplies ==
    /\ run_pc[ManualRun] = "reply"
    /\ run_pc' = [run_pc EXCEPT ![ManualRun] = "done"]
    /\ processing_lock' = None
    /\ UNCHANGED <<run_pos, run_last_time, attempted, is_processing, run_mtime,
                   last_processed, handlerVars, coordVars, fnVars>>

\* the connection and the search for log files (lines 215-382): log files
\* are found, or nothing is (return 0, 0), or a call raises (line 478)
Connect(r, outcome) ==
    /\ run_pc[r] = "connect"
    /\ UNCHANGED last_processed
    /\ IF outcome = "files"
       THEN /\ run_pc' = [run_pc EXCEPT ![r] = "stat"]
            /\ UNCHANGED <<run_pos, run_last_time, attempted, is_processing>>
       ELSE LeaveServer(r)
    /\ UNCHANGED <<run_mtime, processing_lock, handlerVars, coordVars, fnVars>>

\* get_file_stats returns (lines 393-416): nothing, or the call raises, and
\* the file is passed over; or an mtime, and the file is downloaded when it is
\* newer than last_time
Stat(r, file_stat) ==
    /\ run_pc[r] = "stat"
    /\ UNCHANGED last_processed
    /\ IF file_stat \in Mtimes
       THEN /\ run_mtime' = [run_mtime EXCEPT ![r] = file_stat]
            /\ IF datetime_gt(file_stat, run_last_time[r])
               THEN /\ run_pc' = [run_pc EXCEPT ![r] = "download"]
                    /\ UNCHANGED <<run_pos, run_last_time, attempted, is_processing>>
               ELSE NextFile(r)
       ELSE /\ UNCHANGED run_mtime
            /\ NextFile(r)
    /\ UNCHANGED <<processing_lock, handlerVars, coordVars, fnVars>>

\* download_file returns (lines 418-430, 462-470): the content, whose entries
\* are filtered, or nothing, or the call raises
Download(r, outcome) ==
    /\ run_pc[r] = "download"
    /\ IF outcome = "content"
       THEN AfterEntry(r, 1)
       ELSE /\ UNCHANGED last_processed
            /\ NextFile(r)
    /\ UNCHANGED <<run_mtime, processing_lock, handlerVars, coordVars, fnVars>>

\* lines 431-459 for the next filtered entry, up to the await inside the
\* handler: normalize_event_data, is_duplicate_event and, for an admitted
\* event, update_log_timestamp, categorize_event and the call of the handler.
\* What normalize_event_data raises is caught at line 458.
ScanEntry(r) ==
    /\ run_pc[r] = "entries"
    /\ LET entry == FilteredEntries(r)[run_pos[r].entry]
       IN  IF normalize_raises(entry) # None
           THEN /\ AfterEntry(r, run_pos[r].entry + 1)
                /\ UNCHANGED <<handlerVars, coordVars>>
           ELSE \E result \in BOOLEAN, pruned \in BOOLEAN :
                LET normalized_event == Submitted(ServerOf(r), entry)
                    event_hash == generate_event_hash(normalized_event)
                    event_type == categorize_event(normalized_event)
                IN  /\ is_duplicate_event(normalized_event, result, pruned)
                    /\ last_call' = [op |-> "is_duplicate_event",
                                     event |-> normalized_event,
                                     result |-> result, pruned |-> pruned,
                                     n |-> 1 - last_call.n, run |-> r]
                    /\ UNCHANGED <<last_processed_csv_timestamps, historyVars,
                                   handler_failed, kills>>
                    /\ IF result
                       THEN /\ AfterEntry(r, run_pos[r].entry + 1)
                            /\ UNCHANGED <<last_processed_log_timestamps, run_event,
                                           handler_calls, admissions>>
                       ELSE /\ IF IsDatetime(normalized_event["timestamp"])
                               THEN update_log_timestamp(ServerOf(r),
                                        normalized_event["timestamp"])
                               ELSE UNCHANGED last_processed_log_timestamps
                            /\ admissions' = [admissions EXCEPT ![event_hash] = @ + 1]
                            /\ IF event_type \in {"kill", "suicide"}
                               THEN /\ handler_calls' =
                                           [handler_calls EXCEPT ![event_hash] = @ + 1]
                                    /\ run_event' = [run_event EXCEPT ![r] =
                                                         normalized_event]
                                    /\ run_pc' = [run_pc EXCEPT ![r] = "handler"]
                                    /\ UNCHANGED <<run_pos, run_last_time, attempted,
                                                   is_processing, last_processed>>
                               ELSE /\ AfterEntry(r, run_pos[r].entry + 1)
                                    /\ UNCHANGED <<run_event, handler_calls>>
    /\ UNCHANGED <<run_mtime, processing_lock, fnVars>>

\* _process_kill_event returns (lines 448-451, 620-711): True after the kill
\* document is inserted, False when one of its database calls raised
HandlerCompletes(r, ok) ==
    /\ run_pc[r] = "handler"
    /\ LET event_hash == generate_event_hash(run_event[r])
       IN  IF ok
           THEN /\ kills' = [kills EXCEPT ![event_hash] = @ + 1]
                /\ UNCHANGED handler_failed
           ELSE /\ handler_failed' = [handler_failed EXCEPT ![event_hash] = @ + 1]
                /\ UNCHANGED kills
    /\ run_event' = [run_event EXCEPT ![r] = None]
    /\ AfterEntry(r, run_pos[r].entry + 1)
    /\ UNCHANGED <<handler_calls, admissions, run_mtime, processing_lock,
                   coordVars, fnVars>>

\* a step of the scan run r is in
ScanStep(r) ==
    \/ \E outcome \in {"files", "nothing", "raised"} : Connect(r, outcome)
    \/ \E file_stat \in Mtimes \cup {None} : Stat(r, file_stat)
    \/ \E outcome \in {"content", "nothing"} : Download(r, outcome)
    \/ ScanEntry(r)
    \/ \E ok \in BOOLEAN : HandlerCompletes(r, ok)

NextTicks ==
    \/ \E r \in Ticks : TickFires(r)
    \/ \E r \in Ticks, raised \in BOOLEAN : ConfigsReturn(r, raised)
    \/ \E r \in Ticks : ScanStep(r)

SpecTicks == InitCog /\ [][NextTicks]_vars

\* the scheduled run that meets the manual command
FirstTick == "tick" \o Digit(1)

NextCog ==
    \/ TickFires(FirstTick)
    \/ \E raised \in BOOLEAN : ConfigsReturn(FirstTick, raised)
    \/ ScanStep(FirstTick)
    \/ \E lookback \in ManualLookbacks : ManualStarts(lookback)
    \/ ManualReplies
    \/ ScanStep(ManualRun)

SpecCog == InitCog /\ [][NextCog]_vars

\* the scan of run r is inside _process_server_logs
InScan(r) == run_pc[r] \in {"connect", "stat", "download", "entries", "handler"}
\* the scheduled run r is in flight
InFlight(r) == run_pc[r] = "configs" \/ InScan(r)

\* the scheduled runs in flight once the step is taken
InFlightNext == {r \in Ticks : run_pc'[r] \in {"configs", "connect", "stat",
                                               "download", "entries", "handler"}}

\* C25: at most one scheduled run of process_logs_task is in flight at any
\* time; a tick that fires while is_processing is true returns without
\* processing any server, stays returned (it is not queued) and leaves the
\* flag of the run in flight set
C25_OneRunInFlight ==
    [][/\ Cardinality(InFlightNext) <= 1
       /\ \A r \in Ticks :
            /\ (run_pc[r] = "idle" /\ run_pc'[r] # "idle" /\ is_processing)
                  => /\ run_pc'[r] = "skipped"
                     /\ attempted'[r] = <<>>
                     /\ is_processing'
            /\ run_pc[r] = "skipped"
                  => /\ run_pc'[r] = "skipped"
                     /\ attempted'[r] = <<>>]_vars

\* a tick has been skipped while another run is in flight with its flag set
C25_Witness ==
    \E r \in Ticks, other \in Ticks :
        /\ run_pc[r] = "skipped"
        /\ InFlight(other)
        /\ attempted[other] # <<>>
        /\ is_processing

\* C26: a manual process_logs_command run and a scheduled tick are never
\* both inside _process_server_logs for the same server
C26_ManualExcludesTick ==
    \A r \in Ticks :
        ~ (/\ InScan(ManualRun)
           /\ InScan(r)
           /\ ServerOf(ManualRun) = ServerOf(r))

\* the event whose handler failed and that no kill document records
FailedUnrecorded(event) ==
    /\ handler_failed[generate_event_hash(event)] > 0
    /\ kills[generate_event_hash(event)] = 0

\* C27: an admitted event whose handler failed is not lost: the poll that
\* reads it again from its file admits it again, so that it is handed to the
\* handler and recorded
C27_FailedEventIsAdmittedAgain ==
    (/\ last_call.op = "is_duplicate_event"
     /\ FailedUnrecorded(last_call.event))
        => ~ last_call.result

\* the hash of the e-th entry of file f of server_id
HashOf(server_id, f, e) ==
    generate_event_hash(Submitted(server_id, LogEntries(server_id, f)[e]))

\* run r, inside _process_server_logs, leaves nothing out in this step: it
\* stays where it is, or goes to the next entry of its file, or, from the
\* last entry, to the next file, or, from the last file or a server that
\* failed, to the next server, or, from the last server, to its end
LeavesNothingOut(r) ==
    LET p == run_pos[r]
        q == run_pos'[r]
        pc == run_pc[r]
        pc2 == run_pc'[r]
        last_entry == pc \in {"entries", "handler"} => p.entry >= Len(FilteredEntries(r))
        last_file == pc = "connect" \/ (last_entry /\ p.file = NumFiles(ServerOf(r)))
    IN  \/ q = p /\ pc2 = pc
        \/ q = p /\ <<pc, pc2>> \in {<<"connect", "stat">>, <<"stat", "download">>,
                                      <<"entries", "handler">>}
        \/ /\ pc2 = "entries"
           /\ q = [p EXCEPT !.entry = IF pc = "download" THEN 1 ELSE @ + 1]
           /\ pc \in {"download", "entries", "handler"}
        \/ /\ pc2 = "stat"
           /\ q = [p EXCEPT !.file = @ + 1, !.entry = 1]
           /\ pc # "connect" /\ last_entry
        \/ /\ pc2 = "connect"
           /\ q = [server |-> p.server + 1, file |-> 1, entry |-> 1]
           /\ last_file
        \/ /\ pc2 = "done"
           /\ p.server = Len(CogServers)
           /\ last_file

C29_RunEndsAndRetriesNextTick ==
    [][/\ is_processing' <=> (InFlightNext # {})
       /\ \A r \in Ticks :
            /\ (InFlight(r) /\ run_pc'[r] = "done") => ~ is_processing'
            /\ (run_pc[r] = "connect" /\ run_pc'[r] \notin {"connect", "stat"})
                  => last_processed'[ServerOf(r)] = last_processed[ServerOf(r)]
            /\ \A i, j \in DOMAIN attempted'[r] :
                  attempted'[r][i] = attempted'[r][j] => i = j
            /\ (run_pc'[r] = "done" /\ attempted'[r] # <<>>)
                  => \A server_id \in CogServerIds :
                        \E i \in DOMAIN attempted'[r] : attempted'[r][i] = server_id]_vars

\* a tick has ended with the flag reset and without a file of s1 processed,
\* and the next tick is attempting s1 again
C29_Witness ==
    \E r \in Ticks, next \in Ticks :
        /\ run_pc[r] = "done"
        /\ attempted[r] = CogServers
        /\ last_processed["s1"] = None
        /\ last_processed["s2"] # None
        /\ run_pc[next] = "connect"
        /\ ServerOf(next) = "s1"

-----------------------------------------------------------------------------
(* LogProcessorCog._process_kill_event: the handler of kill and suicide
   events, as a function of the event and of the database call that fails *)

\* is_suicide of lines 650-652
is_suicide(killer_id, victim_id) ==
    Truthy(killer_id) /\ Truthy(victim_id) /\ killer_id = victim_id

\* the database calls the handler awaits, in order, when none fails (lines
\* 659-706): two for a suicide, eight for a kill, the last the insert. The
\* events handed over carry a datetime timestamp, which lines 643-648 pass on
\* as it is.
KillCalls(event) ==
    LET server_id == GetN(event, "server_id")
        killer_id == Get(event, "killer_id", Str(""))
        victim_id == Get(event, "victim_id", Str(""))
    IN  IF is_suicide(killer_id, victim_id)
        THEN <<[call |-> "_get_or_create_player", player |-> victim_id],
               [call |-> "update_stats", player |-> victim_id,
                kills |-> 0, deaths |-> 0, suicides |-> 1]>>
        ELSE <<[call |-> "_get_or_create_player", player |-> killer_id],
               [call |-> "_get_or_create_player", player |-> victim_id],
               [call |-> "update_stats", player |-> killer_id,
                kills |-> 1, deaths |-> 0, suicides |-> 0],
               [call |-> "update_stats", player |-> victim_id,
                kills |-> 0, deaths |-> 1, suicides |-> 0],
               [call |-> "Rivalry.record_kill", killer |-> killer_id,
                victim |-> victim_id],
               [call |-> "update_nemesis_and_prey", player |-> killer_id],
               [call |-> "update_nemesis_and_prey", player |-> victim_id],
               [call |-> "insert_one", server_id |-> server_id,
                killer_id |-> killer_id,
                killer_name |-> Get(event, "killer_name", Str("Unknown")),
                victim_id |-> victim_id,
                victim_name |-> Get(event, "victim_name", Str("Unknown")),
                weapon |-> Get(event, "weapon", Str("Unknown")),
                distance |-> Get(event, "distance", PyInt(0)),
                timestamp |-> event["timestamp"],
                is_suicide |-> FALSE, source |-> "log"]>>

\* the handler from its first database call on: the calls before the one
\* that fails are made, and it returns True when none fails (lines 659-711)
KillEventRuns(event, db_fails_at) ==
    LET calls == KillCalls(event)
    IN  IF db_fails_at = 0
        THEN [returns |-> TRUE, calls |-> calls]
        ELSE [returns |-> FALSE, calls |-> SubSeq(calls, 1, db_fails_at - 1)]

\* mutant: the victim_id is not looked at
process_kill_event_any_victim(event, db_fails_at) ==
    LET server_id == GetN(event, "server_id")
        killer_id == Get(event, "killer_id", Str(""))
        victim_id == Get(event, "victim_id", Str(""))
    IN  IF ~ Truthy(server_id)
        THEN [returns |-> FALSE, calls |-> <<>>]
        ELSE IF ~ is_suicide(killer_id, victim_id) /\ ~ Truthy(killer_id)
        THEN [returns |-> FALSE, calls |-> <<>>]
        ELSE KillEventRuns(event, db_fails_at)

\* _process_kill_event(event): what it returns and the database calls it
\* made, when its db_fails_at-th database call raises (0: none does)
process_kill_event(event, db_fails_at) ==
    LET server_id == GetN(event, "server_id")
        killer_id == Get(event, "killer_id", Str(""))
        victim_id == Get(event, "victim_id", Str(""))
    IN  IF ~ Truthy(server_id)
        THEN [returns |-> FALSE, calls |-> <<>>]
        ELSE IF ~ Truthy(victim_id)
        THEN [returns |-> FALSE, calls |-> <<>>]
        ELSE IF ~ is_suicide(killer_id, victim_id) /\ ~ Truthy(killer_id)
        THEN [returns |-> FALSE, calls |-> <<>>]
        ELSE KillEventRuns(event, db_fails_at)

\* the identifiers of the events handed to the handler: absent, null, empty
\* or a string
KillIds == {None, Str(""), Str("a"), Str("b")}

KillEvents ==
    {server_id @@ killer_id @@ victim_id
         @@ [killer_name |-> Str("N"), victim_name |-> Str("M"),
             weapon |-> Str("AK"), distance |-> PyInt(0),
             timestamp |-> DT(0, 0)] :
        server_id \in Optional("server_id", {None, Str(""), Str("s1")}),
        killer_id \in Optional("killer_id", KillIds),
        victim_id \in Optional("victim_id", KillIds)}

InitKill ==
    /\ CoordInit /\ RunIdle
    /\ ev1 \in KillEvents
    /\ ev2 = None
    /\ out1 = None
    /\ out2 = None
    /\ fn_phase = "raw"

\* await self._process_kill_event(normalized_event) (line 450)
ProcessKillEvent(db_fails_at) ==
    /\ fn_phase = "raw"
    /\ db_fails_at \in 0..Len(KillCalls(ev1))
    /\ out1' = process_kill_event(ev1, db_fails_at)
    /\ fn_phase' = "handled"
    /\ UNCHANGED <<ev1, ev2, out2, coordVars, runVars>>

NextKill == \E db_fails_at \in 0..Len(KillCalls(ev1)) : ProcessKillEvent(db_fails_at)

SpecKill == InitKill /\ [][NextKill]_vars

\* the event lacks an identifier the handler requires
LacksIdentifier(event) ==
    \/ ~ Truthy(GetN(event, "server_id"))
    \/ ~ Truthy(GetN(event, "victim_id"))
    \/ ~ Truthy(GetN(event, "killer_id"))

\* C30: a kill event with an empty server_id, an empty victim_id or, not
\* being a suicide, an empty killer_id is dropped by the handler: it returns
\* False and makes no database call, so no statistic is updated and no kill
\* document inserted
C30_MissingIdentifierIsDropped ==
    (fn_phase = "handled" /\ LacksIdentifier(ev1))
        => /\ out1.returns = FALSE
           /\ out1.calls = <<>>

\* an event with a killer and a server but an empty victim_id was dropped
C30_Witness ==
    /\ fn_phase = "handled"
    /\ GetN(ev1, "server_id") = Str("s1")
    /\ GetN(ev1, "killer_id") = Str("a")
    /\ GetN(ev1, "victim_id") = Str("")
    /\ out1.returns = FALSE

-----------------------------------------------------------------------------
(* The cursors and last_processed in the log poller *)

\* is_duplicate_event is called in this step
CoordinatorCalled == last_call' # last_call /\ last_call'.op = "is_duplicate_event"

\* C31: in the log poller the log cursor of a server changes only in the step
\* in which an event of that server is admitted, and every admission sets it
\* to the event's timestamp; a rejected duplicate and an entry that did not
\* reach the coordinator leave it alone
C31_LogCursorFollowsAdmissions ==
    [][\A server_id \in CogServerIds :
          LET admitted == /\ CoordinatorCalled
                          /\ ~ last_call'.result
                          /\ last_call'.event["server_id"] = Str(server_id)
          IN  /\ admitted => last_processed_log_timestamps'[server_id]
                                = last_call'.event["timestamp"]
              /\ ~ admitted => last_processed_log_timestamps'[server_id]
                                = last_processed_log_timestamps[server_id]]_vars

\* the later entry of s1's first file and the earlier entry of its second
\* have both been admitted, and the cursor is the timestamp of the second
C31_Witness ==
    /\ admissions[HashOf("s1", 1, 2)] > 0
    /\ admissions[HashOf("s1", 2, 1)] > 0
    /\ last_call.op = "is_duplicate_event"
    /\ ~ last_call.result
    /\ last_call.event["timestamp"] = EntryTime
    /\ last_processed_log_timestamps["s1"] = EntryTime

\* run r moves in this step
Moves(r) == run_pc'[r] # run_pc[r] \/ run_pos'[r] # run_pos[r]

\* C32: a scan sets last_processed[server] only at the end of a file whose
\* mtime was strictly newer than the last_time the scan read at its start and
\* whose content was downloaded, and sets it to that mtime; a file that is
\* unchanged, whose stat fails or whose download is empty leaves it as it is.
\* The one other write is the lookback of process_logs_command before its scan.
C32_LastProcessedIsFileMtime ==
    [][/\ \A server_id \in CogServerIds :
            last_processed'[server_id] # last_processed[server_id]
              => \/ /\ server_id = ManualServer
                    /\ run_pc[ManualRun] = "idle"
                    /\ Moves(ManualRun)
                 \/ \E r \in CogRuns :
                        /\ Moves(r)
                        /\ run_pc[r] \in {"download", "entries", "handler"}
                        /\ ServerOf(r) = server_id
                        /\ datetime_gt(run_mtime[r], run_last_time[r])
                        /\ last_processed'[server_id] = run_mtime[r]
       /\ \A r \in CogRuns :
            /\ (run_pc[r] = "stat" /\ Moves(r)) => UNCHANGED last_processed
            /\ Download(r, "nothing") => UNCHANGED last_processed]_vars

\* a scan has set last_processed of s1 to the mtime of its first file, which
\* is neither the timestamp of the entry admitted from it nor the log
\* cursor, and is at the second file
C32_Witness ==
    \E r \in CogRuns :
        /\ ServerOf(r) = "s1"
        /\ run_pos[r].file = 2
        /\ run_pc[r] = "stat"
        /\ admissions[HashOf("s1", 1, 2)] > 0
        /\ last_processed["s1"] = DT(0, MaxUsec)
        /\ last_processed_log_timestamps["s1"] = LateEntryTime

-----------------------------------------------------------------------------
(* What the handler records *)

\* the calls of the handler's result that are call
CallsOf(result, call) == SelectSeq(result.calls, LAMBDA c : c.call = call)

\* C33: a kill or suicide event that the handler processed successfully
\* (it returned True) made exactly one insert into the kills collection
C33_OneInsertPerProcessedEvent ==
    (fn_phase = "handled" /\ out1.returns)
        => Len(CallsOf(out1, "insert_one")) = 1

\* the poller hands the categorized event to the handler (log_processor.py
\* lines 436, 445-451): ev2 is what _process_kill_event returns and calls
HandleEntry(db_fails_at) ==
    /\ fn_phase = "categorized"
    /\ out2 \in {Str("kill"), Str("suicide")}
    /\ db_fails_at \in 0..Len(KillCalls(SetKey(out1, "server_id", Str("s1"))))
    /\ ev2' = process_kill_event(SetKey(out1, "server_id", Str("s1")), db_fails_at)
    /\ fn_phase' = "handled"
    /\ UNCHANGED <<ev1, out1, out2, coordVars, runVars>>

\* categorize_event on the normalized event with its event_type tag taken
\* off, for an event that came with both identifiers
CategorizeUntagged ==
    /\ fn_phase = "normalized"
    /\ HasBothIds(ev1)
    /\ ev2' = DelKey(out1, "event_type")
    /\ out2' = Str(categorize_event(ev2'))
    /\ fn_phase' = "untagged"
    /\ UNCHANGED <<ev1, out1, coordVars, runVars>>

\* normalize_event_data on what normalize_event_data returned: ev2 is the
\* second result, or the exception raised
NormalizeAgain(now) ==
    /\ fn_phase = "normalized"
    /\ ev2' = IF normalize_raises(out1) = None
              THEN normalize_event_data(out1, now)
              ELSE normalize_raises(out1)
    /\ fn_phase' = "renormalized"
    /\ UNCHANGED <<ev1, out1, out2, coordVars, runVars>>

NextRoute ==
    \/ \E now \in {DT(0, 0)} : NormalizeEntry(now)
    \/ CategorizeEntry
    \/ CategorizeUntagged
    \/ \E now \in NowTimes : NormalizeAgain(now)
    \/ \E db_fails_at \in IF fn_phase = "categorized"
                          THEN 0..Len(KillCalls(out1)) ELSE {} :
          HandleEntry(db_fails_at)

SpecRoute == InitPipeline /\ [][NextRoute]_vars

\* C34: an event the poller routes as 'suicide' is recorded as a suicide:
\* the handler credits no kill and records no rivalry, and when it returns
\* True it has incremented a suicide counter
C34_SuicideIsRecordedAsSuicide ==
    (fn_phase = "handled" /\ out2 = Str("suicide"))
        => /\ \A i \in DOMAIN ev2.calls :
                /\ ev2.calls[i].call # "Rivalry.record_kill"
                /\ ev2.calls[i].call = "update_stats" => ev2.calls[i].kills = 0
           /\ ev2.returns
                => \E i \in DOMAIN ev2.calls :
                      /\ ev2.calls[i].call = "update_stats"
                      /\ ev2.calls[i].suicides = 1

\* C35: for an event with both identifiers, categorize_event of the event
\* without its tag returns the kind, 'kill' or 'suicide', that
\* normalize_event_data assigned to it
C35_ClassifierAgreesWithNormalizer ==
    (/\ fn_phase = "untagged"
     /\ "event_type" \notin DOMAIN ev1
     /\ GetN(out1, "event_type") \in {Str("kill"), Str("suicide")})
        => out2 = out1["event_type"]

-----------------------------------------------------------------------------
(* One coordinator for all servers: the same kill reported by two servers *)

\* each kill as submitted for each server (log_processor.py line 436)
ServerEvents ==
    {SetKey(KillEvent(i), "server_id", Str(server_id)) :
        i \in 1..NumKills, server_id \in Servers}

NextServers == \E event \in ServerEvents : Submit(event)

SpecServers == InitCoord /\ [][NextServers]_vars

\* C36: admitting an event of one server does not make is_duplicate_event
\* return True for an event of another server: an event of another server
\* that would have been admitted before the step would be admitted after it
C36_ServersDoNotCollide ==
    [][(IsDuplicateStep /\ ~ last_call'.result)
          => \A other \in ServerEvents :
                (/\ other["server_id"] # last_call'.event["server_id"]
                 /\ generate_event_hash(other) \notin processed_event_hashes)
                    => generate_event_hash(other) \notin processed_event_hashes']_vars

\* C37: normalize_event_data is idempotent on events whose timestamp is a
\* datetime: normalizing its result again gives the same event in every
\* field, event_type included
C37_NormalizeIsIdempotent ==
    (/\ fn_phase = "renormalized"
     /\ "timestamp" \in DOMAIN ev1
     /\ IsDatetime(ev1["timestamp"]))
        => ev2 = out1

\* C38: when the manual command and the scheduled task scan the same log
\* file of the same server, interleaved at their awaits, each entry of the
\* file is handed to the handler at most once in total
C38_EntryHandledAtMostOnce ==
    \A event_hash \in DOMAIN handler_calls : handler_calls[event_hash] <= 1

\* C39: without manual triggers last_processed[server] never decreases:
\* each write of a scheduled scan is greater than or equal to the value it
\* replaces
C39_LastProcessedNeverDecreases ==
    [][\A server_id \in CogServerIds :
          last_processed[server_id] # None
            => ~ datetime_gt(last_processed[server_id],
                             last_processed'[server_id])]_vars

-----------------------------------------------------------------------------
(* The cursor updates among calls of is_duplicate_event *)

NextFrame ==
    \/ \E s \in Servers, t \in CursorTimes : SetCsvCursor(s, t)
    \/ \E s \in Servers, t \in CursorTimes : SetLogCursor(s, t)
    \/ \E event \in {KillEvent(1), KillEvent(2)} : CallIsDuplicateEvent(event)

SpecFrame == InitCoord /\ [][NextFrame]_vars

\* C40: update_csv_timestamp(s, t) changes the CSV cursor of s and nothing
\* else: the CSV cursors of the other servers, the log cursors and the
\* fingerprint set stay as they are; update_log_timestamp likewise
C40_UpdateChangesOneCursor ==
    [][last_call'.n # last_call.n
          => /\ last_call'.op = "update_csv_timestamp"
                  => /\ last_processed_csv_timestamps' =
                            [last_processed_csv_timestamps
                                EXCEPT ![last_call'.server_id] = last_call'.timestamp]
                     /\ UNCHANGED <<last_processed_log_timestamps,
                                    processed_event_hashes>>
             /\ last_call'.op = "update_log_timestamp"
                  => /\ last_processed_log_timestamps' =
                            [last_processed_log_timestamps
                                EXCEPT ![last_call'.server_id] = last_call'.timestamp]
                     /\ UNCHANGED <<last_processed_csv_timestamps,
                                    processed_event_hashes>>]_vars

\* update_csv_timestamp has moved the CSV cursor of a server while the other
\* server has a different CSV cursor, the server a different log cursor, and
\* the fingerprint set holds a fingerprint
C40_Witness ==
    /\ last_call.op = "update_csv_timestamp"
    /\ last_call.previous # last_call.timestamp
    /\ processed_event_hashes # {}
    /\ \E other \in Servers \ {last_call.server_id} :
          /\ ~ IsNone(last_processed_csv_timestamps[other])
          /\ last_processed_csv_timestamps[other] # last_call.timestamp
    /\ ~ IsNone(last_processed_log_timestamps[last_call.server_id])
    /\ last_processed_log_timestamps[last_call.server_id] # last_call.timestamp

====
